---- MODULE Spec2Model ----
(***************************************************************************)
(* git-log-calendar-teams: identity resolution, team membership, snapshot  *)
(* selection, the aggregation reducer and the calendar gap-fill of         *)
(* src/index.js, as state machines over small configurations.              *)
(*                                                                         *)
(* Strings are sequences of one-character strings, so that lower-casing,   *)
(* splitting and concatenation are computed character by character.        *)
(***************************************************************************)
EXTENDS Integers, Sequences, FiniteSets, TLC

VARIABLES pc, config, call, statsDir, fileMap, toRemove, report, now, visits, data, dates, series, newData, index, tasks, output, previous

vars == <<pc, config, call, statsDir, fileMap, toRemove, report, now, visits, data, dates, series, newData, index, tasks, output, previous>>

(***************************************************************************)
(* Strings                                                                  *)
(***************************************************************************)
UpperChars == <<"A","B","C","D","E","F","G","H","I","J","K","L","M","N","O","P","Q","R","S","T","U","V","W","X","Y","Z">>

LowerChars == <<"a","b","c","d","e","f","g","h","i","j","k","l","m","n","o","p","q","r","s","t","u","v","w","x","y","z">>

LowerChar(c) ==
  IF \E i \in DOMAIN UpperChars : UpperChars[i] = c
  THEN LowerChars[CHOOSE i \in DOMAIN UpperChars : UpperChars[i] = c]
  ELSE c

\* String.prototype.toLowerCase
toLowerCase(s) == [i \in DOMAIN s |-> LowerChar(s[i])]

\* Array.prototype.includes
includes(list, x) == \E i \in DOMAIN list : list[i] = x

\* the strings of the configurations and author records
sMk == <<"M","k">>
smk == <<"m","k">>
sDa == <<"D","a">>
sda == <<"d","a">>
sbot == <<"b","o","t">>
sBot == <<"B","o","t">>
smAt == <<"m","@">>
sMAt == <<"M","@">>
sdAt == <<"d","@">>
sxAt == <<"x","@">>
sbAt == <<"b","@">>

(***************************************************************************)
(* Identity resolution                                                      *)
(***************************************************************************)
\* the predicate of users.find in getAuthor: u.associations.includes(email) || u.associations.includes(name)
matchesUser(u, email, name) == includes(u.associations, email) \/ includes(u.associations, name)

\* Array.prototype.find over users from position i on; 0 stands for undefined
RECURSIVE findUserFrom(_, _, _, _)
findUserFrom(users, i, email, name) ==
  IF i > Len(users) THEN 0
  ELSE IF matchesUser(users[i], email, name) THEN i
  ELSE findUserFrom(users, i + 1, email, name)

\* a resolver that keeps the last matching user instead of the first
RECURSIVE findLastUserFrom(_, _, _, _)
findLastUserFrom(users, i, email, name) ==
  IF i < 1 THEN 0
  ELSE IF matchesUser(users[i], email, name) THEN i
  ELSE findLastUserFrom(users, i - 1, email, name)

getAuthorLast(users, email, name) ==
  findLastUserFrom(users, Len(users), toLowerCase(email), toLowerCase(name))

\* getAuthor: the index in users of the resolved user, 0 when unregistered
getAuthor(users, email, name) ==
  findUserFrom(users, 1, toLowerCase(email), toLowerCase(name))

(***************************************************************************)
(* Teams                                                                    *)
(***************************************************************************)
\* the loop of collectUnusedUsers from team i on, usedUsers being the names collected so far
RECURSIVE collectFrom(_, _, _)
collectFrom(teams, i, usedUsers) ==
  IF i > Len(teams) THEN teams
  ELSE IF teams[i].invert
       THEN collectFrom([teams EXCEPT ![i].users = usedUsers], i + 1, usedUsers)
       ELSE collectFrom(teams, i + 1, usedUsers \o teams[i].users)

\* a pass that adds the collected users to the users an inverted team already has
RECURSIVE collectFromAppending(_, _, _)
collectFromAppending(teams, i, usedUsers) ==
  IF i > Len(teams) THEN teams
  ELSE IF teams[i].invert
       THEN collectFromAppending([teams EXCEPT ![i].users = @ \o usedUsers], i + 1, usedUsers)
       ELSE collectFromAppending(teams, i + 1, usedUsers \o teams[i].users)

collectUnusedUsersAppending(teams) == collectFromAppending(teams, 1, <<>>)

\* collectUnusedUsers: the teams list after the pass
collectUnusedUsers(teams) == collectFrom(teams, 1, <<>>)

\* the exclude test shared by the membership checks: obj.exclude && (obj.exclude.includes(name) || obj.exclude.includes(email))
excluded(obj, email, name) ==
  obj.hasExclude /\ (includes(obj.exclude, name) \/ includes(obj.exclude, email))

\* a membership check that forgets the exclude lists
isAuthorBelongNoVeto(repository, team, users, email, name, onlyRegistered) ==
  LET user == getAuthor(users, email, name)
      lname == toLowerCase(name)
      lemail == toLowerCase(email)
      includesTeam == IF user # 0 THEN includes(team.users, users[user].name)
                      ELSE includes(team.users, lname) \/ includes(team.users, lemail)
  IN IF onlyRegistered /\ user = 0 THEN FALSE
     ELSE (IF team.invert THEN ~includesTeam ELSE includesTeam)

\* a membership check that ignores team.invert
isAuthorBelongNoInvert(repository, team, users, email, name, onlyRegistered) ==
  LET user == getAuthor(users, email, name)
      lname == toLowerCase(name)
      lemail == toLowerCase(email)
      includesTeam == IF user # 0 THEN includes(team.users, users[user].name)
                      ELSE includes(team.users, lname) \/ includes(team.users, lemail)
  IN IF onlyRegistered /\ user = 0 THEN FALSE
     ELSE includesTeam
          /\ (~team.hasExclude \/ ~excluded(team, lemail, lname))
          /\ (~repository.hasExclude \/ ~excluded(repository, lemail, lname))

isAuthorBelongToRepositoryAndTeam(repository, team, users, email, name, onlyRegistered) ==
  LET user == getAuthor(users, email, name)
      lname == toLowerCase(name)
      lemail == toLowerCase(email)
      excludeTeam == excluded(team, lemail, lname)
      excludeRepository == excluded(repository, lemail, lname)
      includesTeam == IF user # 0 THEN includes(team.users, users[user].name)
                      ELSE includes(team.users, lname) \/ includes(team.users, lemail)
  IN IF onlyRegistered /\ user = 0 THEN FALSE
     ELSE (IF team.invert THEN ~includesTeam ELSE includesTeam)
          /\ (~team.hasExclude \/ ~excludeTeam)
          /\ (~repository.hasExclude \/ ~excludeRepository)

isAuthorBelongToRepository(repository, users, email, name, onlyRegistered) ==
  LET user == getAuthor(users, email, name)
      lname == toLowerCase(name)
      lemail == toLowerCase(email)
  IN IF onlyRegistered /\ user = 0 THEN FALSE
     ELSE ~repository.hasExclude \/ ~excluded(repository, lemail, lname)

isAuthorBelongToTeam(team, users, email, name) ==
  LET lname == toLowerCase(name)
      lemail == toLowerCase(email)
      user == findUserFrom(users, 1, lemail, lname)
      excludeTeam == excluded(team, lemail, lname)
      includesTeam == IF user # 0 THEN includes(team.users, users[user].name)
                      ELSE includes(team.users, lname) \/ includes(team.users, lemail)
  IN (IF team.invert THEN ~includesTeam ELSE includesTeam)
     /\ (~team.hasExclude \/ ~excludeTeam)

(***************************************************************************)
(* Configurations                                                           *)
(***************************************************************************)
sT1 == <<"t","1">>
sT2 == <<"t","2">>
sOth == <<"o","t">>
sRa == <<"r","a">>
sRb == <<"r","b">>

\* users with lower-cased associations
uMk == [name |-> sMk, associations |-> <<smk, smAt>>]
uDa == [name |-> sDa, associations |-> <<sdAt>>]
\* a user declared as in git-log-config.yml, with an association in the casing of the name
uMkCfg == [name |-> sMk, associations |-> <<smAt, sMk>>]
\* a user whose associations overlap those of uMk
uDaMk == [name |-> sDa, associations |-> <<sdAt, smk>>]

UsersChoices == { <<uMk, uDa>>, <<uMkCfg, uDa>>, <<uMk, uDaMk>>, <<uDaMk, uMk>>, <<uDa>>, <<>> }

tTeam == [name |-> sT1, users |-> <<sDa, sMk>>, invert |-> FALSE, hasExclude |-> FALSE, exclude |-> <<>>]
tTeamEx == [name |-> sT1, users |-> <<sDa, sMk, sbot>>, invert |-> FALSE, hasExclude |-> TRUE, exclude |-> <<smAt, sbot>>]
tRaw == [name |-> sT2, users |-> <<sxAt, sbot, sDa>>, invert |-> FALSE, hasExclude |-> FALSE, exclude |-> <<>>]
tOthers == [name |-> sOth, users |-> <<>>, invert |-> TRUE, hasExclude |-> FALSE, exclude |-> <<>>]
tOthersEx == [name |-> sOth, users |-> <<>>, invert |-> TRUE, hasExclude |-> TRUE, exclude |-> <<sbot>>]

TeamsChoices ==
  { <<tTeam, tOthers>>, <<tOthers, tTeam>>, <<tTeam, tOthersEx, tRaw>>,
    <<tTeamEx, tRaw, tOthers>>, <<tTeam, tRaw, tOthersEx>>, <<tTeamEx>> }

rA == [name |-> sRa, hasExclude |-> FALSE, exclude |-> <<>>]
rB == [name |-> sRb, hasExclude |-> TRUE, exclude |-> <<sbAt>>]

RepositoriesChoices == { <<rA>>, <<rA, rB>> }

Emails == {smAt, sMAt, sdAt, sxAt, sbAt}
Names == {smk, sMk, sda, sbot, sBot}

NoCall == [fn |-> "none", repository |-> 0, team |-> 0, email |-> <<>>, name |-> <<>>, user |-> 0, belongs |-> FALSE]
NoReport == [hasUsers |-> FALSE, users |-> <<>>, hasRepositories |-> FALSE, repositories |-> <<>>,
             hasTeams |-> FALSE, teams |-> <<>>, others |-> FALSE, othersLabel |-> <<>>,
             limit |-> 0, top |-> 0]
Nothing == <<>>

(***************************************************************************)
(* Membership: readData's collectUnusedUsers pass, then the checks          *)
(***************************************************************************)
InitMember ==
  /\ pc = "config"
  /\ \E u \in UsersChoices, t \in TeamsChoices, r \in RepositoriesChoices, o \in BOOLEAN :
       config = [users |-> u, teams |-> t, repositories |-> r, onlyRegistered |-> o]
  /\ call = NoCall
  /\ statsDir = Nothing /\ fileMap = Nothing /\ toRemove = Nothing
  /\ report = NoReport /\ now = 0 /\ visits = Nothing /\ data = Nothing
  /\ dates = Nothing /\ series = Nothing /\ newData = Nothing /\ index = Nothing /\ tasks = Nothing /\ output = Nothing /\ previous = Nothing

\* readData, line 72: the pass that runs before any membership check
CollectUnusedUsers ==
  /\ pc = "config"
  /\ config' = [config EXCEPT !.teams = collectUnusedUsers(config.teams)]
  /\ pc' = "ready"
  /\ UNCHANGED <<call, statsDir, fileMap, toRemove, report, now, visits, data, dates, series, newData, index, tasks, output, previous>>

GetAuthor ==
  /\ pc = "ready"
  /\ \E email \in Emails, name \in Names :
       call' = [NoCall EXCEPT !.fn = "getAuthor", !.email = email, !.name = name,
                              !.user = getAuthor(config.users, email, name)]
  /\ pc' = "checked"
  /\ UNCHANGED <<config, statsDir, fileMap, toRemove, report, now, visits, data, dates, series, newData, index, tasks, output, previous>>

IsAuthorBelongToRepositoryAndTeam ==
  /\ pc = "ready"
  /\ \E r \in DOMAIN config.repositories, t \in DOMAIN config.teams, email \in Emails, name \in Names :
       call' = [fn |-> "isAuthorBelongToRepositoryAndTeam", repository |-> r, team |-> t,
                email |-> email, name |-> name,
                user |-> getAuthor(config.users, email, name),
                belongs |-> isAuthorBelongToRepositoryAndTeam(config.repositories[r], config.teams[t],
                              config.users, email, name, config.onlyRegistered)]
  /\ pc' = "checked"
  /\ UNCHANGED <<config, statsDir, fileMap, toRemove, report, now, visits, data, dates, series, newData, index, tasks, output, previous>>

IsAuthorBelongToTeam ==
  /\ pc = "ready"
  /\ \E t \in DOMAIN config.teams, email \in Emails, name \in Names :
       call' = [fn |-> "isAuthorBelongToTeam", repository |-> 0, team |-> t,
                email |-> email, name |-> name,
                user |-> getAuthor(config.users, email, name),
                belongs |-> isAuthorBelongToTeam(config.teams[t], config.users, email, name)]
  /\ pc' = "checked"
  /\ UNCHANGED <<config, statsDir, fileMap, toRemove, report, now, visits, data, dates, series, newData, index, tasks, output, previous>>

NextMember == CollectUnusedUsers \/ GetAuthor \/ IsAuthorBelongToRepositoryAndTeam \/ IsAuthorBelongToTeam

SpecMember == InitMember /\ [][NextMember]_vars

Range(list) == {list[i] : i \in DOMAIN list}

\* the call's author, lower-cased as the checks lower-case it
callEmail == toLowerCase(call.email)
callName == toLowerCase(call.name)

\* membership of the call's author in the users list of team t, by the resolved identity
callInTeamUsers(t) ==
  IF call.user # 0 THEN includes(config.teams[t].users, config.users[call.user].name)
  ELSE includes(config.teams[t].users, callName) \/ includes(config.teams[t].users, callEmail)

callVetoTeam(t) ==
  config.teams[t].hasExclude
  /\ (includes(config.teams[t].exclude, callName) \/ includes(config.teams[t].exclude, callEmail))

callVetoRepository(r) ==
  config.repositories[r].hasExclude
  /\ (includes(config.repositories[r].exclude, callName) \/ includes(config.repositories[r].exclude, callEmail))

\* C5 as claimed: for an inverted team with base set S and every value of onlyRegistered,
\* an author in S is not a member and an author outside S that no exclude list names is a member
C5_InversionAnyOnlyRegistered ==
  (call.fn = "isAuthorBelongToRepositoryAndTeam" /\ config.teams[call.team].invert) =>
     /\ callInTeamUsers(call.team) => ~call.belongs
     /\ (~callInTeamUsers(call.team) /\ ~callVetoTeam(call.team) /\ ~callVetoRepository(call.repository))
          => call.belongs

\* C5 amended: for an inverted team with base set S, an author in S is never a member; an author
\* outside S that no exclude list names is a member when the author resolves to a registered user
\* or onlyRegistered is off (an unregistered author is never a member under onlyRegistered)
C5_Inversion ==
  (call.fn = "isAuthorBelongToRepositoryAndTeam" /\ config.teams[call.team].invert) =>
     /\ callInTeamUsers(call.team) => ~call.belongs
     /\ (~callInTeamUsers(call.team) /\ ~callVetoTeam(call.team) /\ ~callVetoRepository(call.repository)
         /\ (call.user # 0 \/ ~config.onlyRegistered))
          => call.belongs
     /\ (call.user = 0 /\ config.onlyRegistered) => ~call.belongs

C5_Witness ==
  /\ call.fn = "isAuthorBelongToRepositoryAndTeam"
  /\ config.teams[call.team].invert
  /\ config.teams[call.team].users # <<>>
  /\ ~callInTeamUsers(call.team)
  /\ call.user = 0
  /\ ~config.onlyRegistered
  /\ call.belongs

\* C6: an author whose lower-cased email or name is in team.exclude or repository.exclude is no
\* member, whatever team.users and team.invert are and whether or not the author is registered
C6_ExcludeIsVeto ==
  (call.fn = "isAuthorBelongToRepositoryAndTeam"
   /\ (callVetoTeam(call.team) \/ callVetoRepository(call.repository)))
     => ~call.belongs

C6_Witness ==
  /\ call.fn = "isAuthorBelongToRepositoryAndTeam"
  /\ ~config.teams[call.team].invert
  /\ callInTeamUsers(call.team)
  /\ call.user # 0
  /\ callVetoTeam(call.team)
  /\ ~call.belongs

\* the users whose associations match the call's author up to letter-casing
callMatchesAnyCasing(i) ==
  \E k \in DOMAIN config.users[i].associations :
     toLowerCase(config.users[i].associations[k]) \in {callEmail, callName}

\* C7 as claimed: an author equal to one of U's associations up to casing (of the author string
\* and of the association) resolves to U, U being the first user declared with such an association
C7_CaseInsensitive ==
  call.fn = "getAuthor" =>
     \A i \in DOMAIN config.users :
        (callMatchesAnyCasing(i) /\ \A j \in 1..(i - 1) : ~callMatchesAnyCasing(j)) => call.user = i

\* the users whose associations hold the call's lower-cased email or name
callMatching == {i \in DOMAIN config.users : matchesUser(config.users[i], callEmail, callName)}

\* C8: getAuthor returns the earliest declared user whose associations hold the lower-cased email
\* or name, and no user when there is none
C8_FirstMatchWins ==
  call.fn = "getAuthor" =>
     IF callMatching = {} THEN call.user = 0
     ELSE call.user \in callMatching /\ \A j \in callMatching : call.user <= j

C8_Witness ==
  /\ call.fn = "getAuthor"
  /\ Cardinality(callMatching) >= 2
  /\ call.user = 1

\* C9 as claimed: after collectUnusedUsers the users of an inverted team are the union of the
\* users of all non-inverted teams, wherever the inverted team is declared
C9_InvertedBaseIsAllTeams ==
  pc # "config" =>
     \A t \in DOMAIN config.teams :
        config.teams[t].invert =>
           Range(config.teams[t].users) =
              UNION {Range(config.teams[s].users) : s \in {x \in DOMAIN config.teams : ~config.teams[x].invert}}

(***************************************************************************)
(* Calendar series: normalizeData                                           *)
(***************************************************************************)
DAY_MILLISECONDS == 86400000

MaxDay == 4
MaxDates == 2
MaxValue == 3

\* +new Date(dateString) of the date string of day d
dateTimestamp(d) == d * DAY_MILLISECONDS

\* Array.prototype.sort with (a, b) => new Date(a.Date) - new Date(b.Date), by stable insertion
RECURSIVE insertByDate(_, _)
insertByDate(sorted, entry) ==
  IF sorted = <<>> THEN <<entry>>
  ELSE IF dateTimestamp(sorted[Len(sorted)].Date) - dateTimestamp(entry.Date) > 0
       THEN insertByDate(SubSeq(sorted, 1, Len(sorted) - 1), entry) \o <<sorted[Len(sorted)]>>
       ELSE sorted \o <<entry>>

RECURSIVE sortByDate(_)
sortByDate(list) ==
  IF list = <<>> THEN <<>>
  ELSE insertByDate(sortByDate(SubSeq(list, 1, Len(list) - 1)), list[Len(list)])

\* the callback of data.reduce in normalizeData
fillStep(acc, value) ==
  IF acc = <<>> THEN <<value>>
  ELSE LET lastDate == dateTimestamp(value.Date)
           firstDay == acc[Len(acc)].Date
           firstDate == dateTimestamp(firstDay)
           emptyDaysCount == (lastDate \div DAY_MILLISECONDS) - (firstDate \div DAY_MILLISECONDS) + 1
           emptyDates == [k \in 1..emptyDaysCount |-> [Date |-> firstDay + (k - 1) + 1, Value |-> 0]]
       IN acc \o emptyDates \o <<value>>

RECURSIVE reduceFill(_, _, _)
reduceFill(list, i, acc) ==
  IF i > Len(list) THEN acc ELSE reduceFill(list, i + 1, fillStep(acc, list[i]))

\* normalizeData; dates lists the entries of the mapping in key order
normalizeData(entries) == reduceFill(sortByDate(entries), 1, <<>>)

DateEntries ==
  UNION { { e \in [1..n -> [Date : 1..MaxDay, Value : 0..MaxValue]] :
              \A i, j \in 1..n : i # j => e[i].Date # e[j].Date } : n \in 0..MaxDates }

InitCalendar ==
  /\ pc = "dates"
  /\ dates \in DateEntries
  /\ series = Nothing /\ newData = Nothing /\ index = Nothing /\ tasks = Nothing /\ output = Nothing /\ previous = Nothing
  /\ config = Nothing /\ call = NoCall
  /\ statsDir = Nothing /\ fileMap = Nothing /\ toRemove = Nothing
  /\ report = NoReport /\ now = 0 /\ visits = Nothing /\ data = Nothing

\* date.getFullYear() of a day of the series; the days of the model are days of 1970
getFullYear(d) == 1970 + d \div 365

\* maxYear of normalizeDataWithD3: the greatest year of the series, 0 when it is empty
RECURSIVE maxYearFrom(_, _, _)
maxYearFrom(list, i, maxYear) ==
  IF i > Len(list) THEN maxYear
  ELSE maxYearFrom(list, i + 1,
                   IF getFullYear(list[i].Date) > maxYear THEN getFullYear(list[i].Date) ELSE maxYear)

\* the file operation of generateCalendarReport on report.output
generateCalendarReport(ds) ==
  IF maxYearFrom(normalizeData(ds), 1, 0) = 0 THEN <<"removeSync">> ELSE <<"writeFileSync">>

\* generateCalendarReport: normalizeDataForCalendarReport (line 764), then the output file
NormalizeData ==
  /\ pc = "dates"
  /\ series' = normalizeData(dates)
  /\ output' = generateCalendarReport(dates)
  /\ pc' = "normalized"
  /\ UNCHANGED <<config, call, statsDir, fileMap, toRemove, report, now, visits, data, dates, newData, index, tasks, previous>>

NextCalendar == NormalizeData

SpecCalendar == InitCalendar /\ [][NextCalendar]_vars

observedDays == {dates[i].Date : i \in DOMAIN dates}
firstDay == CHOOSE d \in observedDays : \A e \in observedDays : d <= e
lastDay == CHOOSE d \in observedDays : \A e \in observedDays : e <= d
observedValue(d) ==
  IF d \in observedDays THEN dates[CHOOSE i \in DOMAIN dates : dates[i].Date = d].Value ELSE 0

\* C1: the normalized series is the run of days from the earliest to the latest observed day,
\* one entry per day in ascending order, observed days with their value and the others with 0
C1_GapFill ==
  (pc = "normalized" /\ dates # <<>>) =>
     /\ Len(series) = lastDay - firstDay + 1
     /\ \A k \in DOMAIN series :
           series[k] = [Date |-> firstDay + k - 1, Value |-> observedValue(firstDay + k - 1)]

(***************************************************************************)
(* Snapshot files: names, readStatsFolder, readStats                        *)
(***************************************************************************)
DIVIDER == <<"-", "_", "-">>
STATS_FILE_POSTFIX == <<".", "s", "t", "a", "t", "s", ".", "j", "s", "o", "n">>

DigitChars == <<"0", "1", "2", "3", "4", "5", "6", "7", "8", "9">>

isDigit(c) == \E i \in DOMAIN DigitChars : DigitChars[i] = c
digitValue(c) == (CHOOSE i \in DOMAIN DigitChars : DigitChars[i] = c) - 1

\* the class \w of a regular expression
isWordChar(c) ==
  \/ isDigit(c)
  \/ c = "_"
  \/ \E i \in DOMAIN LowerChars : LowerChars[i] = c \/ UpperChars[i] = c

\* Number.prototype.toString of a non-negative integer
RECURSIVE numberToString(_)
numberToString(n) ==
  IF n < 10 THEN <<DigitChars[n + 1]>>
  ELSE numberToString(n \div 10) \o <<DigitChars[(n % 10) + 1]>>

\* whether sub occurs in s at position i
occursAt(s, sub, i) ==
  /\ i + Len(sub) - 1 <= Len(s)
  /\ \A k \in 1..Len(sub) : s[i + k - 1] = sub[k]

\* String.prototype.indexOf from position i, 1-based; 0 when sub does not occur
RECURSIVE indexOfFrom(_, _, _)
indexOfFrom(s, sub, i) ==
  IF i + Len(sub) - 1 > Len(s) THEN 0
  ELSE IF occursAt(s, sub, i) THEN i
  ELSE indexOfFrom(s, sub, i + 1)

\* String.prototype.includes
stringIncludes(s, sub) == indexOfFrom(s, sub, 1) # 0

\* String.prototype.split with a non-empty separator
RECURSIVE split(_, _)
split(s, sep) ==
  LET i == indexOfFrom(s, sep, 1)
  IN IF i = 0 THEN <<s>>
     ELSE <<SubSeq(s, 1, i - 1)>> \o split(SubSeq(s, i + Len(sep), Len(s)), sep)

\* the value of a run of digits read after acc
RECURSIVE digitsValue(_, _, _)
digitsValue(s, i, acc) ==
  IF i > Len(s) \/ ~isDigit(s[i]) THEN acc
  ELSE digitsValue(s, i + 1, acc * 10 + digitValue(s[i]))

NaN == [nan |-> TRUE, value |-> 0]
number(n) == [nan |-> FALSE, value |-> n]

\* Number.parseInt(s, 10) of a string without leading blanks
parseInt(s) ==
  LET signed == s # <<>> /\ s[1] \in {"-", "+"}
      first == IF signed THEN 2 ELSE 1
  IN IF first > Len(s) \/ ~isDigit(s[first]) THEN NaN
     ELSE number((IF signed /\ s[1] = "-" THEN -1 ELSE 1) * digitsValue(s, first, 0))

\* the comparison a < b of two numbers, false when either is NaN
lessThan(a, b) == ~a.nan /\ ~b.nan /\ a.value < b.value

\* String.prototype.replace(/\W+/g, '-'): every run of non-word characters becomes one '-'
RECURSIVE replaceNonWord(_, _)
replaceNonWord(s, i) ==
  IF i > Len(s) THEN <<>>
  ELSE IF isWordChar(s[i]) THEN <<s[i]>> \o replaceNonWord(s, i + 1)
  ELSE IF i > 1 /\ ~isWordChar(s[i - 1]) THEN replaceNonWord(s, i + 1)
  ELSE <<"-">> \o replaceNonWord(s, i + 1)

getRepositoryName(repository) == toLowerCase(replaceNonWord(repository.name, 1))

\* the final name collect gives the snapshot of a repository written at Date.now() = timestamp
snapshotFileName(repositoryName, timestamp) ==
  repositoryName \o DIVIDER \o numberToString(timestamp) \o STATS_FILE_POSTFIX

\* the fields readStatsFolder parses out of a file name
parsedRepositoryName(file) == split(split(file, <<".">>)[1], DIVIDER)[1]

parsedTimestamp(file) ==
  LET parts == split(split(file, <<".">>)[1], DIVIDER)
  IN IF Len(parts) >= 2 THEN parseInt(parts[2]) ELSE NaN

\* a folder scan that keeps the file listed last for a key
statsFolderStepLastListed(acc, entry) ==
  IF ~stringIncludes(entry.file, STATS_FILE_POSTFIX) THEN acc
  ELSE LET fileKey == parsedRepositoryName(entry.file)
           timestamp == parsedTimestamp(entry.file)
           seen == fileKey \in DOMAIN acc.fileMap
           item == [repositoryName |-> fileKey, file |-> entry.file, timestamp |-> timestamp,
                    hasData |-> FALSE, data |-> <<>>]
       IN [fileMap |-> [k \in DOMAIN acc.fileMap \cup {fileKey} |->
                          IF k = fileKey THEN item ELSE acc.fileMap[k]],
           toRemove |-> IF seen THEN Append(acc.toRemove, acc.fileMap[fileKey].file)
                        ELSE acc.toRemove]

\* a folder scan that forgets an older file listed after the newer one of its key
statsFolderStepForgetsLate(acc, entry) ==
  IF ~stringIncludes(entry.file, STATS_FILE_POSTFIX) THEN acc
  ELSE LET fileKey == parsedRepositoryName(entry.file)
           timestamp == parsedTimestamp(entry.file)
           seen == fileKey \in DOMAIN acc.fileMap
           item == [repositoryName |-> fileKey, file |-> entry.file, timestamp |-> timestamp,
                    hasData |-> FALSE, data |-> <<>>]
       IN IF ~seen \/ lessThan(acc.fileMap[fileKey].timestamp, timestamp)
          THEN [fileMap |-> [k \in DOMAIN acc.fileMap \cup {fileKey} |->
                               IF k = fileKey THEN item ELSE acc.fileMap[k]],
                toRemove |-> IF seen THEN Append(acc.toRemove, acc.fileMap[fileKey].file)
                             ELSE acc.toRemove]
          ELSE acc

\* the body of the loop of readStatsFolder for the directory entry at position i;
\* acc holds fileMap (a function of the keys seen) and toRemove
statsFolderStep(acc, entry) ==
  IF ~stringIncludes(entry.file, STATS_FILE_POSTFIX) THEN acc
  ELSE LET fileKey == parsedRepositoryName(entry.file)
           timestamp == parsedTimestamp(entry.file)
           seen == fileKey \in DOMAIN acc.fileMap
           item == [repositoryName |-> fileKey, file |-> entry.file, timestamp |-> timestamp,
                    hasData |-> FALSE, data |-> <<>>]
       IN IF ~seen \/ lessThan(acc.fileMap[fileKey].timestamp, timestamp)
          THEN [fileMap |-> [k \in DOMAIN acc.fileMap \cup {fileKey} |->
                               IF k = fileKey THEN item ELSE acc.fileMap[k]],
                toRemove |-> IF seen THEN Append(acc.toRemove, acc.fileMap[fileKey].file)
                             ELSE acc.toRemove]
          ELSE [acc EXCEPT !.toRemove = Append(acc.toRemove, entry.file)]

RECURSIVE statsFolderFrom(_, _, _)
statsFolderFrom(dir, i, acc) ==
  IF i > Len(dir) THEN acc ELSE statsFolderFrom(dir, i + 1, statsFolderStep(acc, dir[i]))

\* readStatsFolder over the listing dir of config.statsDir: [fileMap, toRemove]
readStatsFolder(dir) == statsFolderFrom(dir, 1, [fileMap |-> <<>>, toRemove |-> <<>>])

\* fs.readFileSync + JSON.parse of a file of the directory
readFile(dir, file) == dir[CHOOSE i \in DOMAIN dir : dir[i].file = file].content

\* readStats: the data of every configured repository that has an entry in fileMap
readStats(map, repositories, dir) ==
  LET keys == {getRepositoryName(repositories[r]) : r \in DOMAIN repositories}
  IN [k \in DOMAIN map |->
        IF k \in keys THEN [map[k] EXCEPT !.hasData = TRUE, !.data = readFile(dir, map[k].file)]
        ELSE map[k]]

(***************************************************************************)
(* The aggregation reducer: normalizeDataReduce and normalizeUserData       *)
(***************************************************************************)
UNREGISTERED_SYMBOL == <<"*">>
OTHERS_LABEL == <<"*">>

\* report.othersLabel || OTHERS_LABEL
othersKey(rep) == IF rep.othersLabel # <<>> THEN rep.othersLabel ELSE OTHERS_LABEL

\* DEFAULT_EVALUATE, the evaluate of git-log-config.yml: item => item.linesChanged
evaluate(item) == item.linesChanged

\* isAuthorBelong: the repository check when report.teams is not set, else the first team of
\* config.teams that report.teams names and the author belongs to
isAuthorBelong(rep, repository, author, cfg) ==
  IF ~rep.hasTeams
  THEN isAuthorBelongToRepository(repository, cfg.users, author.email, author.name, cfg.onlyRegistered)
  ELSE \E t \in DOMAIN cfg.teams :
          /\ includes(rep.teams, cfg.teams[t].name)
          /\ isAuthorBelongToRepositoryAndTeam(repository, cfg.teams[t], cfg.users,
                                               author.email, author.name, cfg.onlyRegistered)

\* userKey before the others rule: the canonical name, or `${email} ${name} *`
authorKey(cfg, author) ==
  LET user == getAuthor(cfg.users, author.email, author.name)
  IN IF user # 0 THEN cfg.users[user].name
     ELSE toLowerCase(author.email) \o <<" ">> \o toLowerCase(author.name) \o <<" ">> \o UNREGISTERED_SYMBOL

\* shouldLogUser before the others rule
matchesReportUsers(rep, cfg, author) ==
  LET user == getAuthor(cfg.users, author.email, author.name)
  IN \/ ~rep.hasUsers
     \/ IF user # 0 THEN includes(rep.users, cfg.users[user].name)
        ELSE includes(rep.users, toLowerCase(author.email)) \/ includes(rep.users, toLowerCase(author.name))

\* the visits of the per-day loop, lines 444-466, from map entry i on
RECURSIVE dayVisits(_, _, _, _, _, _, _)
dayVisits(rep, r, a, author, userKey, nowTimestamp, i) ==
  IF i > Len(author.map) THEN <<>>
  ELSE LET limitTimestamp == nowTimestamp - rep.limit * DAY_MILLISECONDS
           timestamp == dateTimestamp(author.map[i].date)
           rest == dayVisits(rep, r, a, author, userKey, nowTimestamp, i + 1)
       IN IF timestamp <= nowTimestamp /\ timestamp >= limitTimestamp
          THEN <<[value |-> evaluate(author.map[i]), repository |-> r, authorIndex |-> a,
                  author |-> author, userKey |-> userKey, dateString |-> author.map[i].date]>> \o rest
          ELSE rest

\* the calls of the callback for a logged author: one per day of the window when limit is set,
\* one for the record otherwise
loggedVisits(rep, r, a, author, userKey, nowTimestamp) ==
  IF rep.limit = 0
  THEN <<[value |-> evaluate(author), repository |-> r, authorIndex |-> a,
          author |-> author, userKey |-> userKey, dateString |-> 0]>>
  ELSE dayVisits(rep, r, a, author, userKey, nowTimestamp, 1)

\* a reducer that reports an author once for every team of report.teams the author belongs to
RECURSIVE perTeamVisits(_, _, _, _, _, _, _)
perTeamVisits(rep, cfg, r, a, author, nowTimestamp, t) ==
  IF t > Len(cfg.teams) THEN <<>>
  ELSE (IF includes(rep.teams, cfg.teams[t].name)
           /\ isAuthorBelongToRepositoryAndTeam(cfg.repositories[r], cfg.teams[t], cfg.users,
                                                author.email, author.name, cfg.onlyRegistered)
           /\ (matchesReportUsers(rep, cfg, author) \/ rep.others)
        THEN loggedVisits(rep, r, a, author,
                          IF matchesReportUsers(rep, cfg, author) THEN authorKey(cfg, author) ELSE othersKey(rep),
                          nowTimestamp)
        ELSE <<>>) \o perTeamVisits(rep, cfg, r, a, author, nowTimestamp, t + 1)

authorVisitsPerTeam(rep, cfg, r, a, author, nowTimestamp) ==
  IF rep.hasTeams THEN perTeamVisits(rep, cfg, r, a, author, nowTimestamp, 1)
  ELSE IF isAuthorBelong(rep, cfg.repositories[r], author, cfg)
          /\ (matchesReportUsers(rep, cfg, author) \/ rep.others)
       THEN loggedVisits(rep, r, a, author,
                         IF matchesReportUsers(rep, cfg, author) THEN authorKey(cfg, author) ELSE othersKey(rep),
                         nowTimestamp)
       ELSE <<>>

\* a reducer whose window is open at its lower end
authorVisitsOpenWindow(rep, cfg, r, a, author, nowTimestamp) ==
  IF isAuthorBelong(rep, cfg.repositories[r], author, cfg)
     /\ (matchesReportUsers(rep, cfg, author) \/ rep.others)
  THEN LET all == loggedVisits(rep, r, a, author,
                     IF matchesReportUsers(rep, cfg, author) THEN authorKey(cfg, author) ELSE othersKey(rep),
                     nowTimestamp)
       IN IF rep.limit = 0 THEN all
          ELSE SelectSeq(all, LAMBDA v : dateTimestamp(v.dateString) > nowTimestamp - rep.limit * DAY_MILLISECONDS)
  ELSE <<>>

\* a reducer that drops the authors outside report.users also when report.others is set
authorVisitsNoOthers(rep, cfg, r, a, author, nowTimestamp) ==
  IF isAuthorBelong(rep, cfg.repositories[r], author, cfg) /\ matchesReportUsers(rep, cfg, author)
  THEN loggedVisits(rep, r, a, author, authorKey(cfg, author), nowTimestamp)
  ELSE <<>>

\* a reducer that logs the authors outside report.users under their own key when report.others is set
authorVisitsOthersOwnKey(rep, cfg, r, a, author, nowTimestamp) ==
  IF isAuthorBelong(rep, cfg.repositories[r], author, cfg)
     /\ (matchesReportUsers(rep, cfg, author) \/ rep.others)
  THEN loggedVisits(rep, r, a, author, authorKey(cfg, author), nowTimestamp)
  ELSE <<>>

\* the body of the author loop of normalizeDataReduce, lines 421-469
authorVisits(rep, cfg, r, a, author, nowTimestamp) ==
  IF isAuthorBelong(rep, cfg.repositories[r], author, cfg)
  THEN LET shouldLogUser == matchesReportUsers(rep, cfg, author)
           isOthers == rep.others
           userKey == IF ~shouldLogUser /\ isOthers THEN othersKey(rep) ELSE authorKey(cfg, author)
       IN IF shouldLogUser \/ isOthers
          THEN loggedVisits(rep, r, a, author, userKey, nowTimestamp)
          ELSE <<>>
  ELSE <<>>

RECURSIVE authorsVisits(_, _, _, _, _, _)
authorsVisits(rep, cfg, r, authors, a, nowTimestamp) ==
  IF a > Len(authors) THEN <<>>
  ELSE authorVisits(rep, cfg, r, a, authors[a], nowTimestamp)
       \o authorsVisits(rep, cfg, r, authors, a + 1, nowTimestamp)

\* the body of the repository loop of normalizeDataReduce, lines 417-472
repositoryVisits(rep, map, cfg, r, nowTimestamp) ==
  LET repositoryName == getRepositoryName(cfg.repositories[r])
  IN IF repositoryName \in DOMAIN map
        /\ (~rep.hasRepositories \/ includes(rep.repositories, cfg.repositories[r].name))
     THEN authorsVisits(rep, cfg, r, map[repositoryName].data, 1, nowTimestamp)
     ELSE <<>>

\* a reducer that ends its loop at the first repository without a snapshot
RECURSIVE reduceVisitsStopAtMissing(_, _, _, _, _)
reduceVisitsStopAtMissing(rep, map, cfg, r, nowTimestamp) ==
  IF r > Len(cfg.repositories) THEN <<>>
  ELSE IF getRepositoryName(cfg.repositories[r]) \notin DOMAIN map THEN <<>>
  ELSE repositoryVisits(rep, map, cfg, r, nowTimestamp)
       \o reduceVisitsStopAtMissing(rep, map, cfg, r + 1, nowTimestamp)

\* the calls of the callback made by normalizeDataReduce, in order
RECURSIVE reduceVisits(_, _, _, _, _)
reduceVisits(rep, map, cfg, r, nowTimestamp) ==
  IF r > Len(cfg.repositories) THEN <<>>
  ELSE repositoryVisits(rep, map, cfg, r, nowTimestamp) \o reduceVisits(rep, map, cfg, r + 1, nowTimestamp)

\* data as the list of its [key, value] entries in insertion order
keyIndex(d, key) == IF \E i \in DOMAIN d : d[i].key = key THEN CHOOSE i \in DOMAIN d : d[i].key = key ELSE 0

\* the callback of normalizeUserData
userDataStep(d, visit) ==
  LET i == keyIndex(d, visit.userKey)
  IN IF i = 0 THEN Append(d, [key |-> visit.userKey, value |-> 0 + visit.value])
     ELSE [d EXCEPT ![i].value = (IF d[i].value = 0 THEN 0 ELSE d[i].value) + visit.value]

RECURSIVE foldUserData(_, _, _)
foldUserData(vs, i, d) ==
  IF i > Len(vs) THEN d ELSE foldUserData(vs, i + 1, userDataStep(d, vs[i]))

\* Array.prototype.sort with (a, b) => data[b] - data[a], by stable insertion
\* a sort that puts the later of two equal values first
RECURSIVE insertByValueTiesFirst(_, _)
insertByValueTiesFirst(sorted, entry) ==
  IF sorted = <<>> THEN <<entry>>
  ELSE IF entry.value - sorted[Len(sorted)].value >= 0
       THEN insertByValueTiesFirst(SubSeq(sorted, 1, Len(sorted) - 1), entry) \o <<sorted[Len(sorted)]>>
       ELSE sorted \o <<entry>>

RECURSIVE insertByValue(_, _)
insertByValue(sorted, entry) ==
  IF sorted = <<>> THEN <<entry>>
  ELSE IF entry.value - sorted[Len(sorted)].value > 0
       THEN insertByValue(SubSeq(sorted, 1, Len(sorted) - 1), entry) \o <<sorted[Len(sorted)]>>
       ELSE sorted \o <<entry>>

RECURSIVE sortByValue(_)
sortByValue(d) ==
  IF d = <<>> THEN <<>>
  ELSE insertByValue(sortByValue(SubSeq(d, 1, Len(d) - 1)), d[Len(d)])

sortMapDataTop(d, top) ==
  LET sorted == sortByValue(d)
  IN SubSeq(sorted, 1, IF top < Len(sorted) THEN top ELSE Len(sorted))

\* normalizeUserData: normalizeDataReduce with the per-user callback, then the top rule
normalizeUserData(rep, map, cfg, nowTimestamp) ==
  LET d == foldUserData(reduceVisits(rep, map, cfg, 1, nowTimestamp), 1, <<>>)
  IN IF rep.top # 0 THEN sortMapDataTop(d, rep.top) ELSE d

(***************************************************************************)
(* The connection map: normalizeUserConnectionData                          *)
(***************************************************************************)
undefined == 0

\* the value a destructuring pattern binds for a property of the callback's argument
property(obj, name) == IF name \in DOMAIN obj THEN obj[name] ELSE undefined

\* userRepositoryMap as the list of its [name, repositories] entries in insertion order
emptyUserRepositoryMap(users) ==
  LET firstOfName == SelectSeq([i \in DOMAIN users |-> i],
                               LAMBDA i : \A j \in 1..(i - 1) : users[j].name # users[i].name)
  IN [k \in DOMAIN firstOfName |-> [name |-> users[firstOfName[k]].name, repositories |-> <<>>]]

mapIndex(m, name) == CHOOSE i \in DOMAIN m : m[i].name = name

\* the callback of normalizeUserConnectionData, lines 313-317
connectionStep(m, visit, cfg) ==
  LET repository == cfg.repositories[property(visit, "repository")]
      user == property(visit, "user")
  IN IF user # undefined
     THEN LET i == mapIndex(m, cfg.users[user].name)
          IN IF ~includes(m[i].repositories, repository.name)
             THEN [m EXCEPT ![i].repositories = Append(@, repository.name)]
             ELSE m
     ELSE m

RECURSIVE foldConnections(_, _, _, _)
foldConnections(vs, i, m, cfg) ==
  IF i > Len(vs) THEN m ELSE foldConnections(vs, i + 1, connectionStep(m, vs[i], cfg), cfg)

findUsersHasRepositories(m, repositoryName) ==
  LET having == SelectSeq([i \in DOMAIN m |-> i], LAMBDA i : includes(m[i].repositories, repositoryName))
  IN [k \in DOMAIN having |-> m[having[k]].name]

\* users !== name, an array against a string
notSame(users, name) == TRUE

\* the links pushed for one repository of one user, lines 330-338
linksOf(m, name, repositoryName) ==
  LET users == findUsersHasRepositories(m, repositoryName)
  IN IF notSame(users, name)
     THEN [k \in DOMAIN users |-> [source |-> name, target |-> users[k]]]
     ELSE <<>>

RECURSIVE repositoryLinks(_, _, _)
repositoryLinks(m, i, r) ==
  IF r > Len(m[i].repositories) THEN <<>>
  ELSE linksOf(m, m[i].name, m[i].repositories[r]) \o repositoryLinks(m, i, r + 1)

RECURSIVE userLinks(_, _)
userLinks(m, i) ==
  IF i > Len(m) THEN <<>> ELSE repositoryLinks(m, i, 1) \o userLinks(m, i + 1)

\* normalizeUserConnectionData; userRepositoryMap is kept next to the nodes and links it returns
normalizeUserConnectionData(rep, map, cfg, nowTimestamp) ==
  LET m == foldConnections(reduceVisits(rep, map, cfg, 1, nowTimestamp), 1,
                           emptyUserRepositoryMap(cfg.users), cfg)
  IN [nodes |-> [i \in DOMAIN m |-> [id |-> m[i].name, name |-> m[i].name]],
      links |-> userLinks(m, 1),
      userRepositoryMap |-> m]

(***************************************************************************)
(* The running series: normalizeRepositoryRunningData, prepareRunningData   *)
(***************************************************************************)
\* the callback of normalizeRepositoryRunningData pushes one entry per call; date is the
\* dateString of the call (0 when the call carries none)
normalizeRepositoryRunningData(rep, map, cfg, nowTimestamp) ==
  LET vs == reduceVisits(rep, map, cfg, 1, nowTimestamp)
  IN [k \in DOMAIN vs |-> [name |-> cfg.repositories[vs[k].repository].name,
                           date |-> vs[k].dateString,
                           value |-> vs[k].value]]

\* +new Date(s.date); an entry without dateString keeps 0, the one key of the invalid dates
dateKey(d) == IF d = 0 THEN 0 ELSE dateTimestamp(d)

\* the keys of d3.group(source, d => +d.date), sorted with d3.ascending
RECURSIVE insertAscending(_, _)
insertAscending(sorted, x) ==
  IF sorted = <<>> THEN <<x>>
  ELSE IF x < sorted[Len(sorted)]
       THEN insertAscending(SubSeq(sorted, 1, Len(sorted) - 1), x) \o <<sorted[Len(sorted)]>>
       ELSE sorted \o <<x>>

RECURSIVE groupDates(_, _, _)
groupDates(source, i, acc) ==
  IF i > Len(source) THEN acc
  ELSE groupDates(source, i + 1,
                  IF includes(acc, dateKey(source[i].date)) THEN acc
                  ELSE insertAscending(acc, dateKey(source[i].date)))

\* the keys of d3.groups(source, d => d.name), in order of first appearance
RECURSIVE groupNames(_, _, _)
groupNames(source, i, acc) ==
  IF i > Len(source) THEN acc
  ELSE groupNames(source, i + 1, IF includes(acc, source[i].name) THEN acc ELSE Append(acc, source[i].name))

\* new Map(values.map(d => [+d.date, d.value])).get(key): the value of the last entry of the
\* key, found is FALSE for undefined
mapGet(values, key) ==
  LET at == {i \in DOMAIN values : dateKey(values[i].date) = key}
  IN IF at = {} THEN [found |-> FALSE, value |-> 0]
     ELSE [found |-> TRUE, value |-> values[CHOOSE i \in at : \A j \in at : j <= i].value]

prepareRunningData(source) ==
  LET ds == groupDates(source, 1, <<>>)
      names == groupNames(source, 1, <<>>)
  IN [dates |-> ds,
      series |-> [n \in DOMAIN names |->
                    [name |-> names[n],
                     values |-> [k \in DOMAIN ds |->
                                   mapGet(SelectSeq(source, LAMBDA s : s.name = names[n]), ds[k])]]]]

(***************************************************************************)
(* The output file of a report: what the generators do to report.output     *)
(***************************************************************************)
RECURSIVE sumValues(_, _)
sumValues(d, i) == IF i > Len(d) THEN 0 ELSE d[i].value + sumValues(d, i + 1)

\* generateDonutReport, lines 855-858 and 948
generateDonutReport(d) ==
  IF sumValues(d, 1) = 0 THEN <<"removeSync">> ELSE <<"writeFileSync">>

\* generateMapReport, lines 956-959 and 1055
generateMapReport(d) ==
  IF Len(d.nodes) = 0 THEN <<"removeSync">> ELSE <<"writeFileSync">>

\* generateRunningReport, lines 1083-1086 and 1167
generateRunningReport(source) ==
  IF Len(source) = 0 THEN <<"removeSync">> ELSE <<"writeFileSync">>

(***************************************************************************)
(* report: readData, then normalizeUserData for a donut report              *)
(***************************************************************************)
MaxTs == 3
MaxFiles == 3
NowDay == 5

RECURSIVE sumLines(_, _)
sumLines(map, i) == IF i > Len(map) THEN 0 ELSE map[i].linesChanged + sumLines(map, i + 1)

\* an author record of a snapshot: linesChanged totals the days of map
authorRecord(email, name, map) ==
  [email |-> email, name |-> name, linesChanged |-> sumLines(map, 1), map |-> map]

day(d, lines) == [date |-> d, linesChanged |-> lines]

authorsA ==
  << authorRecord(smAt, sMk, <<day(NowDay - 1, 10), day(NowDay, 5)>>),
     authorRecord(sxAt, sbot, <<day(NowDay - 3, 1), day(NowDay, 2), day(NowDay + 1, 4)>>) >>

authorsB ==
  << authorRecord(sdAt, sda, <<day(NowDay, 3)>>),
     authorRecord(sMAt, smk, <<day(NowDay - 2, 2)>>),
     authorRecord(sbAt, sBot, <<day(NowDay - 1, 1)>>) >>

authorsC == << authorRecord(sdAt, sda, <<day(NowDay - 4, 7), day(NowDay - 1, 0)>>) >>

AuthorsChoices == <<authorsA, authorsB, authorsC>>

\* the snapshot collect writes for repository key k at Date.now() = ts; key and timestamp record
\* what it was written for, the program reads file and content only
snapshot(k, ts, authors) ==
  [file |-> snapshotFileName(k, ts), content |-> authors, key |-> k, timestamp |-> ts]

SnapshotKeys == <<getRepositoryName(rA), getRepositoryName(rB)>>

Snapshots ==
  { snapshot(SnapshotKeys[k], ts, AuthorsChoices[((k + ts) % 3) + 1]) : k \in DOMAIN SnapshotKeys, ts \in 1..MaxTs }

\* the listings of a statsDir: up to MaxFiles snapshots in any order
Listings ==
  UNION { { l \in [1..n -> Snapshots] : \A i, j \in 1..n : i # j => l[i] # l[j] } : n \in 0..MaxFiles }

\* a configured report.othersLabel
sOthersLabel == <<"o", "t", "h">>

ReportChoices ==
  { [hasUsers |-> u[1], users |-> u[2], hasRepositories |-> r[1], repositories |-> r[2],
     hasTeams |-> t[1], teams |-> t[2], others |-> o[1], othersLabel |-> o[2], limit |-> l, top |-> p] :
       u \in {<<FALSE, <<>>>>, <<TRUE, <<sMk>>>>, <<TRUE, <<sxAt, sbot>>>>},
       r \in {<<FALSE, <<>>>>, <<TRUE, <<sRa>>>>},
       t \in {<<FALSE, <<>>>>, <<TRUE, <<sT1>>>>, <<TRUE, <<sT1, sT2, sOth>>>>},
       o \in {<<FALSE, <<>>>>, <<TRUE, <<>>>>, <<TRUE, sOthersLabel>>}, l \in {0, 1, 3}, p \in {0, 1} }

\* the instants of 'now': midnight and noon (UTC) of day NowDay
NowChoices == {dateTimestamp(NowDay), dateTimestamp(NowDay) + DAY_MILLISECONDS \div 2}

AllReport == [NoReport EXCEPT !.limit = 0]

\* author strings with and without a space, and a user whose name ends like a synthetic key
sA == <<"a">>
sAB == <<"a", " ", "b">>
sZ == <<"z">>
sC == <<"c">>
sBC == <<"b", " ", "c">>
sCUpper == <<"C">>
sACStar == <<"a", " ", "c", " ", "*">>

uStar == [name |-> sACStar, associations |-> <<sZ>>]

\* author records of a snapshot over those strings
KeyAuthors ==
  { authorRecord(e, n, <<day(NowDay, 1)>>) : e \in {sA, sAB, sZ}, n \in {sC, sBC, sCUpper} }

\* a varied directory under the configuration of git-log-config.yml's shape, or varied
\* configurations and reports over one snapshot per repository, or a snapshot of two varied
\* authors under a report of everything
InitReport ==
  /\ pc = "start"
  /\ \/ /\ statsDir \in Listings
        /\ config = [users |-> <<uMk, uDa>>, teams |-> <<tTeam, tOthers>>,
                     repositories |-> <<rA, rB>>, onlyRegistered |-> FALSE]
        /\ report \in {AllReport, [NoReport EXCEPT !.limit = 3]}
        /\ now = dateTimestamp(NowDay) + DAY_MILLISECONDS \div 2
     \/ /\ statsDir = << snapshot(SnapshotKeys[1], 1, authorsA), snapshot(SnapshotKeys[2], 1, authorsB) >>
        /\ \E u \in {<<uMk, uDa>>, <<uDa>>},
              t \in {<<tTeam, tOthers>>, <<tTeam, tRaw, tOthersEx>>, <<tTeamEx>>},
              r \in {<<rA, rB>>, <<rB>>}, o \in BOOLEAN :
              config = [users |-> u, teams |-> t, repositories |-> r, onlyRegistered |-> o]
        /\ report \in ReportChoices
        /\ now \in NowChoices
     \/ /\ \E first \in KeyAuthors : \E second \in KeyAuthors \ {first} :
              statsDir = << snapshot(SnapshotKeys[1], 1, <<first, second>>) >>
        /\ \E u \in {<<uDa>>, <<uStar>>} :
              config = [users |-> u, teams |-> <<>>, repositories |-> <<rA>>, onlyRegistered |-> FALSE]
        /\ report = AllReport
        /\ now = dateTimestamp(NowDay)
  /\ fileMap = Nothing /\ toRemove = Nothing /\ visits = Nothing /\ data = Nothing
  /\ call = NoCall /\ dates = Nothing /\ series = Nothing /\ newData = Nothing /\ index = Nothing /\ tasks = Nothing /\ output = Nothing /\ previous = Nothing

\* readData: collectUnusedUsers, readStatsFolder, readStats
ReadData ==
  /\ pc = "start"
  /\ config' = [config EXCEPT !.teams = collectUnusedUsers(config.teams)]
  /\ fileMap' = readStats(readStatsFolder(statsDir).fileMap, config.repositories, statsDir)
  /\ pc' = "read"
  /\ UNCHANGED <<call, statsDir, toRemove, report, now, visits, data, dates, series, newData, index, tasks, output, previous>>

\* reportDonutUser for one report: normalizeUserData at the instant now, then generateDonutReport
NormalizeUserData ==
  /\ pc = "read"
  /\ visits' = reduceVisits(report, fileMap, config, 1, now)
  /\ data' = normalizeUserData(report, fileMap, config, now)
  /\ output' = generateDonutReport(normalizeUserData(report, fileMap, config, now))
  /\ pc' = "done"
  /\ UNCHANGED <<config, call, statsDir, fileMap, toRemove, report, now, dates, series, newData, index, tasks, previous>>

\* clean: readStatsFolder, then fs.removeSync of every file of toRemove
Clean ==
  /\ pc = "start"
  /\ toRemove' = readStatsFolder(statsDir).toRemove
  /\ statsDir' = SelectSeq(statsDir, LAMBDA e : ~includes(readStatsFolder(statsDir).toRemove, e.file))
  /\ pc' = "cleaned"
  /\ UNCHANGED <<config, call, fileMap, report, now, visits, data, dates, series, newData, index, tasks, output, previous>>

\* reportMapUser: normalizeUserConnectionData at the instant now, then generateMapReport
NormalizeUserConnectionData ==
  /\ pc = "read"
  /\ visits' = reduceVisits(report, fileMap, config, 1, now)
  /\ data' = normalizeUserConnectionData(report, fileMap, config, now)
  /\ output' = generateMapReport(normalizeUserConnectionData(report, fileMap, config, now))
  /\ pc' = "mapped"
  /\ UNCHANGED <<config, call, statsDir, fileMap, toRemove, report, now, dates, series, newData, index, tasks, previous>>

\* reportRunningRepositories for one report: normalizeRepositoryRunningData, then
\* generateRunningReport, which prepares the series unless the source is empty
NormalizeRepositoryRunningData ==
  /\ pc = "read"
  /\ visits' = reduceVisits(report, fileMap, config, 1, now)
  /\ data' = normalizeRepositoryRunningData(report, fileMap, config, now)
  /\ series' = IF Len(normalizeRepositoryRunningData(report, fileMap, config, now)) = 0 THEN Nothing
                ELSE prepareRunningData(normalizeRepositoryRunningData(report, fileMap, config, now))
  /\ output' = generateRunningReport(normalizeRepositoryRunningData(report, fileMap, config, now))
  /\ pc' = "running"
  /\ UNCHANGED <<config, call, statsDir, fileMap, toRemove, report, now, dates, newData, index, tasks, previous>>

NextReport ==
  ReadData \/ NormalizeUserData \/ NormalizeUserConnectionData \/ NormalizeRepositoryRunningData \/ Clean

SpecReport == InitReport /\ [][NextReport]_vars

\* the snapshot data the run holds for configured repository r
repositoryKey(r) == getRepositoryName(config.repositories[r])
hasSnapshot(r) == repositoryKey(r) \in DOMAIN fileMap
snapshotData(r) == fileMap[repositoryKey(r)].data

\* the author is named by report.users: a registered user by the canonical name, an
\* unregistered author by the lower-cased email or name
namedByReport(author) ==
  LET user == getAuthor(config.users, author.email, author.name)
  IN IF user # 0 THEN config.users[user].name \in Range(report.users)
     ELSE toLowerCase(author.email) \in Range(report.users) \/ toLowerCase(author.name) \in Range(report.users)

\* the (repository, author record) pairs that pass the repository allow-list, the membership
\* check and the users/others logging rule
passingAuthors ==
  { p \in UNION { {<<r, a>> : a \in DOMAIN snapshotData(r)} : r \in {x \in DOMAIN config.repositories : hasSnapshot(x)} } :
       /\ (report.hasRepositories => config.repositories[p[1]].name \in Range(report.repositories))
       /\ isAuthorBelong(report, config.repositories[p[1]], snapshotData(p[1])[p[2]], config)
       /\ (~report.hasUsers \/ namedByReport(snapshotData(p[1])[p[2]]) \/ report.others) }

inWindow(d) ==
  /\ dateTimestamp(d) <= now
  /\ dateTimestamp(d) >= now - report.limit * DAY_MILLISECONDS

\* the items that contribute: a passing author record when limit is not set, else its days in
\* the window [now - limit days, now]; <<r, a, 0>> stands for the record, <<r, a, i>> for day i of its map
passingItems ==
  IF report.limit = 0 THEN {<<p[1], p[2], 0>> : p \in passingAuthors}
  ELSE UNION { { <<p[1], p[2], i>> : i \in {j \in DOMAIN snapshotData(p[1])[p[2]].map :
                                               inWindow(snapshotData(p[1])[p[2]].map[j].date)} } :
               p \in passingAuthors }

itemAuthor(it) == snapshotData(it[1])[it[2]]
itemValue(it) == IF it[3] = 0 THEN evaluate(itemAuthor(it)) ELSE evaluate(itemAuthor(it).map[it[3]])
itemKey(it) ==
  IF ~report.hasUsers \/ namedByReport(itemAuthor(it)) THEN authorKey(config, itemAuthor(it))
  ELSE othersKey(report)

\* the sum of the values of a set of items
RECURSIVE sumItems(_)
sumItems(S) ==
  IF S = {} THEN 0 ELSE LET x == CHOOSE y \in S : TRUE IN itemValue(x) + sumItems(S \ {x})

\* C2: without top, the mapping normalizeUserData returns has one key per resolved key of a
\* passing item, and its value is the sum of evaluate over exactly the passing items of that key
C2_AggregateIsFilteredSum ==
  (pc = "done" /\ report.top = 0) =>
     /\ \A i, j \in DOMAIN data : data[i].key = data[j].key => i = j
     /\ {data[i].key : i \in DOMAIN data} = {itemKey(it) : it \in passingItems}
     /\ \A i \in DOMAIN data :
           data[i].value = sumItems({it \in passingItems : itemKey(it) = data[i].key})

C2_Witness ==
  /\ pc = "done" /\ report.top = 0 /\ report.others /\ report.hasUsers /\ report.hasTeams
  /\ \E i \in DOMAIN data :
        /\ data[i].key = OTHERS_LABEL
        /\ Cardinality({it \in passingItems : itemKey(it) = data[i].key}) >= 2
  /\ Len(data) >= 2

visitsOf(vs, r, a) == SelectSeq(vs, LAMBDA v : v.repository = r /\ v.authorIndex = a)

\* the teams of report.teams the author of a pair belongs to
teamsOf(p) ==
  { t \in DOMAIN config.teams :
       /\ includes(report.teams, config.teams[t].name)
       /\ isAuthorBelongToRepositoryAndTeam(config.repositories[p[1]], config.teams[t], config.users,
             snapshotData(p[1])[p[2]].email, snapshotData(p[1])[p[2]].name, config.onlyRegistered) }

noDoubleVisit(vs) ==
  \A i, j \in DOMAIN vs :
     (vs[i].repository = vs[j].repository /\ vs[i].authorIndex = vs[j].authorIndex
      /\ vs[i].dateString = vs[j].dateString) => i = j

\* C3: a run of normalizeDataReduce calls the callback at most once per (repository, author
\* record, day), with limit not set exactly once per passing (repository, author record), also
\* for an author in several teams of report.teams, and leaves fileMap as it was
C3_NoDoubleCounting ==
  [][ (pc = "read" /\ pc' = "done") =>
        /\ fileMap' = fileMap
        /\ noDoubleVisit(visits')
        /\ report.limit = 0 =>
              /\ \A p \in passingAuthors : Len(visitsOf(visits', p[1], p[2])) = 1
              /\ \A i \in DOMAIN visits' : <<visits'[i].repository, visits'[i].authorIndex>> \in passingAuthors ]_vars

C3_Witness ==
  /\ pc = "done" /\ report.hasTeams
  /\ \E p \in passingAuthors :
        /\ Cardinality(teamsOf(p)) >= 2
        /\ Len(visitsOf(visits, p[1], p[2])) >= 1

\* the visits of a passing pair are the days of its map inside the window, each with the
\* evaluate of the day; with limit not set, one visit with the evaluate of the record
windowVisits(p) ==
  LET author == snapshotData(p[1])[p[2]]
      vs == visitsOf(visits, p[1], p[2])
  IN IF report.limit = 0
     THEN Len(vs) = 1 /\ vs[1].value = evaluate(author)
     ELSE /\ \A i \in DOMAIN author.map :
               inWindow(author.map[i].date) <=>
                  \E k \in DOMAIN vs : vs[k].dateString = author.map[i].date
          /\ \A k \in DOMAIN vs :
               \E i \in DOMAIN author.map :
                  author.map[i].date = vs[k].dateString /\ vs[k].value = evaluate(author.map[i])
          /\ noDoubleVisit(vs)

RECURSIVE totalValue(_, _)
totalValue(vs, i) == IF i > Len(vs) THEN 0 ELSE vs[i].value + totalValue(vs, i + 1)

\* the passing records with days {D-1: 10, D: 5}, D being NowDay
examplePairs ==
  { p \in passingAuthors : snapshotData(p[1])[p[2]].map = <<day(NowDay - 1, 10), day(NowDay, 5)>> }

exampleTotals ==
  \A p \in examplePairs :
     /\ report.limit = 1 => totalValue(visitsOf(visits, p[1], p[2]), 1) = 5
     /\ report.limit = 0 => totalValue(visitsOf(visits, p[1], p[2]), 1) = 15

snapshotsOf(r) == {i \in DOMAIN statsDir : statsDir[i].key = repositoryKey(r)}
newestOf(r) == CHOOSE i \in snapshotsOf(r) : \A j \in snapshotsOf(r) : statsDir[j].timestamp <= statsDir[i].timestamp

\* C10: whatever the listing order, after readData the entry of fileMap for a repository is the
\* snapshot of its key with the greatest timestamp, its data are the contents of that file, and
\* every author record normalizeDataReduce visits comes from that file
C10_NewestSnapshotSelected ==
  pc \in {"read", "done"} =>
     /\ \A r \in DOMAIN config.repositories :
           snapshotsOf(r) # {} =>
              /\ hasSnapshot(r)
              /\ fileMap[repositoryKey(r)].file = statsDir[newestOf(r)].file
              /\ fileMap[repositoryKey(r)].hasData
              /\ fileMap[repositoryKey(r)].data = statsDir[newestOf(r)].content
     /\ pc = "done" =>
           \A k \in DOMAIN visits :
              /\ snapshotsOf(visits[k].repository) # {}
              /\ visits[k].author = statsDir[newestOf(visits[k].repository)].content[visits[k].authorIndex]

C10_Witness ==
  /\ pc = "done"
  /\ \E i, j \in DOMAIN statsDir :
        /\ i < j /\ statsDir[i].key = statsDir[j].key /\ statsDir[i].timestamp > statsDir[j].timestamp
        /\ \E k \in DOMAIN visits : repositoryKey(visits[k].repository) = statsDir[i].key

(***************************************************************************)
(* C11  garbage collection is exact                                         *)
(***************************************************************************)
\* the snapshot a file name was written as
writtenAs(f) == CHOOSE s \in Snapshots : s.file = f

\* C11: after clean no two remaining snapshots share a repository key, every removed file is
\* older than a remaining snapshot of its key (so the remaining one is the newest and no
\* selected file was removed), and no listed file is both removed and kept
C11_GarbageCollectionExact ==
  pc = "cleaned" =>
     /\ \A i, j \in DOMAIN statsDir : i # j => statsDir[i].key # statsDir[j].key
     /\ \A n \in DOMAIN toRemove :
           \E i \in DOMAIN statsDir :
              /\ statsDir[i].key = writtenAs(toRemove[n]).key
              /\ statsDir[i].timestamp > writtenAs(toRemove[n]).timestamp
     /\ \A i \in DOMAIN statsDir : ~includes(toRemove, statsDir[i].file)
     /\ \A m, n \in DOMAIN toRemove : m # n => toRemove[m] # toRemove[n]

\* clean removed two older snapshots of one key and kept the newest of both keys
C11_Witness ==
  /\ pc = "cleaned"
  /\ Len(statsDir) = 1
  /\ Len(toRemove) = 2
  /\ statsDir[1].timestamp = MaxTs

(***************************************************************************)
(* The top rule of normalizeDataReduce over bounded buckets                 *)
(***************************************************************************)
MaxBuckets == 3
MaxBucketValue == 2

KeyPool == << <<"A">>, <<"B">>, <<"C">>, <<"D">>, <<"E">>, <<"F">> >>

\* data after the callbacks: up to MaxBuckets keys in any insertion order, values 0..MaxBucketValue
BucketChoices ==
  UNION { { d \in [1..n -> [key : {KeyPool[k] : k \in 1..MaxBuckets}, value : 0..MaxBucketValue]] :
              \A i, j \in 1..n : i # j => d[i].key # d[j].key } : n \in 0..MaxBuckets }

\* {A: 10, B: 30, C: 20}
exampleBuckets ==
  << [key |-> <<"A">>, value |-> 10], [key |-> <<"B">>, value |-> 30], [key |-> <<"C">>, value |-> 20] >>

InitTop ==
  /\ pc = "reduced"
  /\ data \in BucketChoices \cup {exampleBuckets}
  /\ \E top \in 0..MaxBuckets : report = [NoReport EXCEPT !.top = top]
  /\ newData = Nothing /\ index = Nothing /\ tasks = Nothing /\ output = Nothing /\ previous = Nothing
  /\ config = Nothing /\ call = NoCall
  /\ statsDir = Nothing /\ fileMap = Nothing /\ toRemove = Nothing
  /\ now = 0 /\ visits = Nothing /\ dates = Nothing /\ series = Nothing

\* normalizeDataReduce, lines 474-478
SortMapDataTop ==
  /\ pc = "reduced"
  /\ newData' = IF report.top # 0 THEN sortMapDataTop(data, report.top) ELSE data
  /\ pc' = "returned"
  /\ UNCHANGED <<config, call, statsDir, fileMap, toRemove, report, now, visits, data, dates, series, index, tasks, output, previous>>

NextTop == SortMapDataTop

SpecTop == InitTop /\ [][NextTop]_vars

\* bucket i comes before bucket j by value descending, ties in insertion order
precedes(i, j) == data[i].value > data[j].value \/ (data[i].value = data[j].value /\ i < j)

\* the position of bucket i in that order
rankOf(i) == Cardinality({j \in DOMAIN data : precedes(j, i)}) + 1

keptCount == IF report.top < Len(data) THEN report.top ELSE Len(data)

memberPairs ==
  { p \in UNION { {<<r, a>> : a \in DOMAIN snapshotData(r)} : r \in {x \in DOMAIN config.repositories : hasSnapshot(x)} } :
       /\ (report.hasRepositories => config.repositories[p[1]].name \in Range(report.repositories))
       /\ isAuthorBelong(report, config.repositories[p[1]], snapshotData(p[1])[p[2]], config) }

\* the record, or the days in the window, of a set of pairs
itemsOf(pairs) ==
  IF report.limit = 0 THEN {<<p[1], p[2], 0>> : p \in pairs}
  ELSE UNION { { <<p[1], p[2], i>> : i \in {j \in DOMAIN snapshotData(p[1])[p[2]].map :
                                               inWindow(snapshotData(p[1])[p[2]].map[j].date)} } :
               p \in pairs }

RECURSIVE totalData(_, _)
totalData(d, i) == IF i > Len(d) THEN 0 ELSE d[i].value + totalData(d, i + 1)

sentinelKey == IF report.othersLabel # <<>> THEN report.othersLabel ELSE <<"*">>

C13_WitnessDropped ==
  /\ pc = "done" /\ report.hasUsers /\ ~report.others
  /\ \E p \in memberPairs : ~namedByReport(snapshotData(p[1])[p[2]])
  /\ data # <<>>

(***************************************************************************)
(* C14  keys of unregistered authors                                        *)
(***************************************************************************)
unregistered(author) == getAuthor(config.users, author.email, author.name) = 0

identityOf(author) == <<toLowerCase(author.email), toLowerCase(author.name)>>

\* the visits of unregistered authors logged under their synthetic key
syntheticVisits ==
  { k \in DOMAIN visits :
       /\ unregistered(visits[k].author)
       /\ (~report.hasUsers \/ namedByReport(visits[k].author)) }

\* C14: two unregistered authors whose (lower-cased email, lower-cased name) pairs differ get
\* different keys, and no synthetic key is the canonical name of a configured user or the
\* others label
C14_KeysNeverCollide ==
  pc = "done" =>
     /\ \A k, l \in syntheticVisits :
           identityOf(visits[k].author) # identityOf(visits[l].author) =>
              visits[k].userKey # visits[l].userKey
     /\ \A k \in syntheticVisits :
           /\ \A u \in DOMAIN config.users : visits[k].userKey # config.users[u].name
           /\ visits[k].userKey # sentinelKey

\* the authors ('a b', 'c') and ('a', 'b c') of one snapshot are summed into one bucket
C14_SeparatorCollision ==
  /\ pc = "done"
  /\ Len(data) = 1
  /\ \E k, l \in syntheticVisits :
        /\ visits[k].author.email = sAB /\ visits[k].author.name = sC
        /\ visits[l].author.email = sA /\ visits[l].author.name = sBC
        /\ visits[k].userKey = visits[l].userKey

(***************************************************************************)
(* C15  edges of the connection map                                         *)
(***************************************************************************)
\* the configured user the author record of a pair resolves to, 0 when none
userOfPair(p) == getAuthor(config.users, snapshotData(p[1])[p[2]].email, snapshotData(p[1])[p[2]].name)

\* the visited pairs of configured user u
pairsOfUser(u) == { p \in passingAuthors : userOfPair(p) = u /\ visitsOf(visits, p[1], p[2]) # <<>> }

\* C15: after normalizeUserConnectionData, two different configured users who both have a
\* visited author record in one repository are joined by a link, and the repositories kept
\* for a user hold every repository with a visited author record of the user
C15_NetworkEdges ==
  pc = "mapped" =>
     /\ \A u, w \in DOMAIN config.users :
           (u # w /\ \E p \in pairsOfUser(u), q \in pairsOfUser(w) : p[1] = q[1]) =>
              \E l \in DOMAIN data.links :
                 /\ data.links[l].source = config.users[u].name
                 /\ data.links[l].target = config.users[w].name
     /\ \A u \in DOMAIN config.users : \A p \in pairsOfUser(u) :
           \E i \in DOMAIN data.userRepositoryMap :
              /\ data.userRepositoryMap[i].name = config.users[u].name
              /\ includes(data.userRepositoryMap[i].repositories, config.repositories[p[1]].name)

\* two configured users have visited records in one repository
C15_SharedRepository ==
  /\ pc = "mapped"
  /\ \E u, w \in DOMAIN config.users :
        u # w /\ \E p \in pairsOfUser(u), q \in pairsOfUser(w) : p[1] = q[1]

(***************************************************************************)
(* C16  values of the running series                                        *)
(***************************************************************************)
\* the days in the window of the passing author records of the repositories named name, at date d
runningItems(name, d) ==
  { it \in passingItems :
       /\ it[3] # 0
       /\ config.repositories[it[1]].name = name
       /\ itemAuthor(it).map[it[3]].date = d }

\* C16: with limit set, the value of the series of repository R at date D is the sum of
\* evaluate(dayRecord) over the passing author records of R with an entry for D in the window,
\* also when several of them have one
C16_RunningSeriesValue ==
  (pc = "running" /\ report.limit # 0 /\ series # Nothing) =>
     \A n \in DOMAIN series.series : \A d \in 1..(NowDay + 1) :
        runningItems(series.series[n].name, d) # {} =>
           \E k \in DOMAIN series.dates :
              /\ series.dates[k] = dateTimestamp(d)
              /\ series.series[n].values[k].found
              /\ series.series[n].values[k].value = sumItems(runningItems(series.series[n].name, d))

\* two author records of one repository have an entry for one day of the window
C16_SameDay ==
  /\ pc = "running" /\ report.limit # 0 /\ series # Nothing
  /\ \E n \in DOMAIN series.series : \E d \in 1..(NowDay + 1) :
        Cardinality(runningItems(series.series[n].name, d)) >= 2

(***************************************************************************)
(* collect: the loop over config.repositories                               *)
(***************************************************************************)
MaxClock == 6

sRc == <<"r", "c">>
rC == [name |-> sRc, hasExclude |-> FALSE, exclude |-> <<>>]

TEMP_POSTFIX == <<".", "t", "e", "m", "p">>

\* an error that leaves the loop and rejects collect
onErrorRethrown == "rejected"

\* the catch of line 218 swallows the error: collect goes on with its loop
onError == "collect"

\* an await that does not wait for the promise
awaitNot(settled) == TRUE

\* await: the loop goes on when the awaited promise has settled
await(settled) == settled

settledPhases == {"done", "failed"}

\* the iterations of the loop that have not run to their end
inFlight == {k \in DOMAIN tasks : tasks[k].phase \notin settledPhases}

InitCollect ==
  /\ pc = "collect"
  /\ \E r \in {<<rA>>, <<rA, rB>>, <<rA, rB, rC>>} :
        config = [users |-> <<>>, teams |-> <<>>, repositories |-> r, onlyRegistered |-> FALSE]
  /\ statsDir \in { <<>>,
                    << snapshot(SnapshotKeys[1], 1, authorsA) >>,
                    << snapshot(SnapshotKeys[2], 2, authorsB), snapshot(SnapshotKeys[1], 1, authorsA) >> }
  /\ now = MaxTs + 1
  /\ index = 1
  /\ tasks = <<>>
  /\ call = NoCall /\ fileMap = Nothing /\ toRemove = Nothing /\ report = NoReport
  /\ visits = Nothing /\ data = Nothing /\ dates = Nothing /\ series = Nothing /\ newData = Nothing
  /\ output = Nothing /\ previous = Nothing

\* for (let repository of config.repositories): the next iteration starts
NextRepository ==
  /\ pc = "collect"
  /\ await(inFlight = {})
  /\ index <= Len(config.repositories)
  /\ tasks' = Append(tasks, [repository |-> index, phase |-> "load", file |-> <<>>])
  /\ index' = index + 1
  /\ UNCHANGED <<pc, config, call, statsDir, fileMap, toRemove, report, now, visits, data, dates, series, newData, output, previous>>

\* the loop is over: collect resolves
Collected ==
  /\ pc = "collect"
  /\ await(inFlight = {})
  /\ index > Len(config.repositories)
  /\ pc' = "collected"
  /\ UNCHANGED <<config, call, statsDir, fileMap, toRemove, report, now, visits, data, dates, series, newData, index, tasks, output, previous>>

\* await loadRepository(repository, config): the clone or checkout succeeds
LoadRepository(k) ==
  /\ pc = "collect"
  /\ tasks[k].phase = "load"
  /\ tasks' = [tasks EXCEPT ![k].phase = "authors"]
  /\ UNCHANGED <<pc, config, call, statsDir, fileMap, toRemove, report, now, visits, data, dates, series, newData, index, output, previous>>

\* the clone or checkout throws
LoadRepositoryFails(k) ==
  /\ pc = "collect"
  /\ tasks[k].phase = "load"
  /\ tasks' = [tasks EXCEPT ![k].phase = "failed"]
  /\ pc' = onError
  /\ UNCHANGED <<config, call, statsDir, fileMap, toRemove, report, now, visits, data, dates, series, newData, index, output, previous>>

\* await gitRepository.authors(...) returns authors; time has passed
Authors(k) ==
  /\ pc = "collect"
  /\ tasks[k].phase = "authors"
  /\ now' \in {now} \cup (IF now < MaxClock THEN {now + 1} ELSE {})
  /\ tasks' = [tasks EXCEPT ![k].phase = "write"]
  /\ UNCHANGED <<pc, config, call, statsDir, fileMap, toRemove, report, visits, data, dates, series, newData, index, output, previous>>

\* it returns no authors: nothing is written
AuthorsEmpty(k) ==
  /\ pc = "collect"
  /\ tasks[k].phase = "authors"
  /\ tasks' = [tasks EXCEPT ![k].phase = "done"]
  /\ UNCHANGED <<pc, config, call, statsDir, fileMap, toRemove, report, now, visits, data, dates, series, newData, index, output, previous>>

\* git log throws
AuthorsFails(k) ==
  /\ pc = "collect"
  /\ tasks[k].phase = "authors"
  /\ tasks' = [tasks EXCEPT ![k].phase = "failed"]
  /\ pc' = onError
  /\ UNCHANGED <<config, call, statsDir, fileMap, toRemove, report, now, visits, data, dates, series, newData, index, output, previous>>

\* fs.writeFileSync(tempPath, ...), with Date.now() = now
WriteTemp(k) ==
  /\ pc = "collect"
  /\ tasks[k].phase = "write"
  /\ LET repositoryName == getRepositoryName(config.repositories[tasks[k].repository])
         repositoryAuthorsFileName == snapshotFileName(repositoryName, now)
         entry == [file |-> repositoryAuthorsFileName \o TEMP_POSTFIX,
                   content |-> AuthorsChoices[((tasks[k].repository + now) % 3) + 1],
                   key |-> repositoryName, timestamp |-> now]
     IN /\ statsDir' = Append(SelectSeq(statsDir, LAMBDA e : e.file # entry.file), entry)
        /\ tasks' = [tasks EXCEPT ![k].phase = "rename", ![k].file = repositoryAuthorsFileName]
  /\ UNCHANGED <<pc, config, call, fileMap, toRemove, report, now, visits, data, dates, series, newData, index, output, previous>>

\* fs.renameSync(tempPath, finalPath)
Rename(k) ==
  /\ pc = "collect"
  /\ tasks[k].phase = "rename"
  /\ LET finalName == tasks[k].file
         tempName == tasks[k].file \o TEMP_POSTFIX
     IN statsDir' = [i \in DOMAIN SelectSeq(statsDir, LAMBDA e : e.file # finalName) |->
                       LET e == SelectSeq(statsDir, LAMBDA x : x.file # finalName)[i]
                       IN IF e.file = tempName THEN [e EXCEPT !.file = finalName] ELSE e]
  /\ tasks' = [tasks EXCEPT ![k].phase = "done"]
  /\ UNCHANGED <<pc, config, call, fileMap, toRemove, report, now, visits, data, dates, series, newData, index, output, previous>>

NextCollect ==
  \/ NextRepository
  \/ Collected
  \/ \E k \in DOMAIN tasks : LoadRepository(k)
  \/ \E k \in DOMAIN tasks : LoadRepositoryFails(k)
  \/ \E k \in DOMAIN tasks : Authors(k)
  \/ \E k \in DOMAIN tasks : AuthorsEmpty(k)
  \/ \E k \in DOMAIN tasks : AuthorsFails(k)
  \/ \E k \in DOMAIN tasks : WriteTemp(k)
  \/ \E k \in DOMAIN tasks : Rename(k)

SpecCollect == InitCollect /\ [][NextCollect]_vars

\* every step of a running collect is taken in the end: the git commands and writes terminate
SpecCollectFair == SpecCollect /\ WF_vars(NextCollect)

(***************************************************************************)
(* C17  skip and continue                                                   *)
(***************************************************************************)
\* a snapshot under its final name
finalNamed(e) == e.file = snapshotFileName(e.key, e.timestamp)

\* C17: whatever clone, checkout or git log fails, the repositories are attempted once each in
\* configuration order, a failure never ends the loop, collect resolves, and a failed
\* repository leaves the snapshots of statsDir as they were and writes none
C17_SkipAndContinue ==
  /\ [](\A k \in DOMAIN tasks : tasks[k].repository = k)
  /\ [](pc = "collected" => Len(tasks) = Len(config.repositories))
  /\ [](pc # "rejected")
  /\ <>(pc = "collected")
  /\ [](\A k \in DOMAIN tasks :
          tasks[k].phase = "failed" =>
             /\ tasks[k].file = <<>>
             /\ \A i \in DOMAIN statsDir :
                   statsDir[i].key = getRepositoryName(config.repositories[tasks[k].repository])
                      => statsDir[i].timestamp <= MaxTs)
  /\ [][ /\ \A i \in DOMAIN statsDir :
              finalNamed(statsDir[i]) => \E j \in DOMAIN statsDir' : statsDir'[j] = statsDir[i]
         /\ (\E k \in DOMAIN tasks : tasks[k].phase # "failed" /\ tasks'[k].phase = "failed")
               => statsDir' = statsDir ]_vars

\* the first two of three repositories failed, one at the clone and one at git log, the third
\* was collected, and the snapshot that was there before is still there
C17_Witness ==
  /\ pc = "collected"
  /\ Len(tasks) = 3
  /\ tasks[1].phase = "failed" /\ tasks[2].phase = "failed" /\ tasks[3].phase = "done"
  /\ tasks[3].file # <<>>
  /\ Len(statsDir) = 3
  /\ \E i \in DOMAIN statsDir : statsDir[i].file = tasks[3].file

(***************************************************************************)
(* C18  sequential processing                                               *)
(***************************************************************************)
writers == {k \in DOMAIN tasks : tasks[k].phase \in {"write", "rename"}}

\* C18: at most one repository is being loaded or collected at a time, the operations of a
\* repository are over before the next one starts, and a temporary snapshot has one writer
C18_Sequential ==
  /\ Cardinality(inFlight) <= 1
  /\ \A k \in DOMAIN tasks : \A j \in 1..(k - 1) : tasks[j].phase \in settledPhases
  /\ Cardinality(writers) <= 1
  /\ Cardinality({i \in DOMAIN statsDir : ~finalNamed(statsDir[i])}) <= 1

\* the second repository is being written after the first was collected
C18_Witness ==
  /\ Len(tasks) = 2
  /\ tasks[1].phase = "done" /\ tasks[1].file # <<>>
  /\ tasks[2].phase = "rename"
  /\ \E i \in DOMAIN statsDir : ~finalNamed(statsDir[i])

(***************************************************************************)
(* C19  a repository without a snapshot                                     *)
(***************************************************************************)
\* config.repositories without the repository at position r
withoutRepository(r) ==
  [config EXCEPT !.repositories = SelectSeq(config.repositories, LAMBDA x : x # config.repositories[r])]

\* C19: a configured repository with no snapshot in statsDir gets no entry in fileMap and no
\* call of the callback, and the result is the one of the same run with the repository left
\* out of config.repositories
C19_MissingSnapshot ==
  pc = "done" =>
     \A r \in DOMAIN config.repositories :
        snapshotsOf(r) = {} =>
           /\ ~hasSnapshot(r)
           /\ \A k \in DOMAIN visits : visits[k].repository # r
           /\ data = normalizeUserData(report, fileMap, withoutRepository(r), now)

\* the first of two configured repositories has no snapshot, the second contributes
C19_Witness ==
  /\ pc = "done"
  /\ Len(config.repositories) = 2
  /\ snapshotsOf(1) = {}
  /\ snapshotsOf(2) # {}
  /\ visits # <<>>
  /\ data # <<>>

(***************************************************************************)
(* C20  the output file of a report without data                            *)
(***************************************************************************)
removed == <<"removeSync">>
written == <<"writeFileSync">>

\* C20 for the donut, map and running reports: the output file is removed, and not written,
\* when the data of the report sum to zero (the map has no nodes), and written, and not
\* removed, otherwise
C20_EmptyResult ==
  /\ pc = "done" => output = IF sumValues(data, 1) = 0 THEN removed ELSE written
  /\ pc = "mapped" => output = IF Len(data.nodes) = 0 THEN removed ELSE written
  /\ pc = "running" => output = IF sumValues(data, 1) = 0 THEN removed ELSE written

\* C20 for the calendar report
C20_EmptyCalendar ==
  pc = "normalized" =>
     output = IF \A i \in DOMAIN dates : dates[i].Value = 0 THEN removed ELSE written

\* a running report whose entries are all zero
C20_ZeroEntries ==
  /\ pc = "running"
  /\ data # <<>>
  /\ sumValues(data, 1) = 0

\* exactly one file operation per report
C20_OneOperation ==
  pc \in {"done", "mapped", "running", "normalized"} => output \in {removed, written}

(***************************************************************************)
(* getConfig and the evaluate of a configuration                            *)
(***************************************************************************)
\* the values of config.evaluate: absent, a source string, or a function, with the property
\* of the item the expression returns
noEvaluate == [type |-> "undefined", body |-> "none"]
evaluateString(b) == [type |-> "string", body |-> b]
evaluateFunction(b) == [type |-> "function", body |-> b]

DEFAULT_EVALUATE == evaluateFunction("linesChanged")

\* Function('"use strict";return (' + source + ')')()
compile(source) == evaluateFunction(source.body)

noConfig == [null |-> TRUE, evaluate |-> noEvaluate]
configWith(e) == [null |-> FALSE, evaluate |-> e]

\* getConfig: altConfig || globalConfig as it is, else the parsed file with evaluate compiled
\* or defaulted
getConfig(altConfig, globalConfig, file) ==
  LET given == IF ~altConfig.null THEN altConfig ELSE globalConfig
  IN IF ~given.null THEN given
     ELSE IF file.evaluate.type # "undefined"
          THEN [file EXCEPT !.evaluate = compile(file.evaluate)]
          ELSE [file EXCEPT !.evaluate = DEFAULT_EVALUATE]

\* config.evaluate(item): a TypeError unless config.evaluate is a function
callEvaluate(cfg, item) ==
  IF cfg.evaluate.type = "function"
  THEN [threw |-> FALSE, value |-> item[cfg.evaluate.body]]
  ELSE [threw |-> TRUE, value |-> 0]

\* objects given as altConfig or to setGlobalConfig, and parsed configuration files
GivenConfigs ==
  {noConfig} \cup {configWith(e) : e \in {noEvaluate, evaluateString("commits"),
                                        evaluateFunction("commits"), evaluateFunction("linesChanged")}}

FileConfigs == {configWith(e) : e \in {noEvaluate, evaluateString("commits"), evaluateString("linesChanged")}}

Items == {[linesChanged |-> l, commits |-> c] : l \in 0..MaxValue, c \in 1..2}

InitConfig ==
  /\ pc = "getConfig"
  /\ \E a \in GivenConfigs, g \in GivenConfigs, f \in FileConfigs, item \in Items :
        call = [fn |-> "getConfig", altConfig |-> a, globalConfig |-> g, file |-> f, item |-> item]
  /\ config = Nothing /\ statsDir = Nothing /\ fileMap = Nothing /\ toRemove = Nothing
  /\ report = NoReport /\ now = 0 /\ visits = Nothing /\ data = Nothing /\ dates = Nothing
  /\ series = Nothing /\ newData = Nothing /\ index = Nothing /\ tasks = Nothing /\ output = Nothing /\ previous = Nothing

\* await getConfig(altConfig), with the globalConfig that setGlobalConfig installed
GetConfig ==
  /\ pc = "getConfig"
  /\ config' = getConfig(call.altConfig, call.globalConfig, call.file)
  /\ pc' = "loaded"
  /\ UNCHANGED <<call, statsDir, fileMap, toRemove, report, now, visits, data, dates, series, newData, index, tasks, output, previous>>

\* config.evaluate(author) or config.evaluate(map[dateString]) in an aggregation
Evaluate ==
  /\ pc = "loaded"
  /\ data' = callEvaluate(config, call.item)
  /\ pc' = "evaluated"
  /\ UNCHANGED <<config, call, statsDir, fileMap, toRemove, report, now, visits, dates, series, newData, index, tasks, output, previous>>

NextConfig == GetConfig \/ Evaluate

SpecConfig == InitConfig /\ [][NextConfig]_vars

\* the configuration getConfig works from: altConfig, else globalConfig, else the file
suppliedConfig ==
  IF ~call.altConfig.null THEN call.altConfig
  ELSE IF ~call.globalConfig.null THEN call.globalConfig ELSE call.file

\* C21: when the configuration supplies no evaluate, config.evaluate is a function after
\* getConfig and an aggregation gets item.linesChanged, also for an altConfig or a
\* configuration installed with setGlobalConfig
C21_DefaultEvaluator ==
  /\ (pc \in {"loaded", "evaluated"} /\ suppliedConfig.evaluate.type = "undefined") =>
        config.evaluate.type = "function"
  /\ (pc = "evaluated" /\ suppliedConfig.evaluate.type = "undefined") =>
        (~data.threw /\ data.value = call.item.linesChanged)

\* the same for a configuration read from the file only
C21_DefaultEvaluatorOfFile ==
  (pc = "evaluated" /\ call.altConfig.null /\ call.globalConfig.null
   /\ call.file.evaluate.type = "undefined") =>
     (~data.threw /\ data.value = call.item.linesChanged)

\* an altConfig without evaluate has been used for an aggregation
C21_AltConfigWithoutEvaluate ==
  /\ pc = "evaluated"
  /\ ~call.altConfig.null
  /\ call.altConfig.evaluate.type = "undefined"
  /\ data.threw

(***************************************************************************)
(* report twice on one configuration object                                 *)
(***************************************************************************)
InitRerun ==
  /\ pc = "start"
  /\ statsDir = << snapshot(SnapshotKeys[1], 1, authorsA), snapshot(SnapshotKeys[2], 1, authorsB) >>
  /\ \E u \in {<<uMk, uDa>>, <<uDa>>},
        t \in {<<tTeam, tOthers>>, <<tOthers, tTeam>>, <<tTeam, tOthers, tRaw, tOthersEx>>,
               <<tTeam, tRaw, tOthersEx>>, <<tTeamEx>>},
        r \in {<<rA, rB>>, <<rB>>}, o \in BOOLEAN :
        config = [users |-> u, teams |-> t, repositories |-> r, onlyRegistered |-> o]
  /\ \E t \in {<<FALSE, <<>>>>, <<TRUE, <<sT1>>>>, <<TRUE, <<sT1, sT2, sOth>>>>}, l \in {0, 3} :
        report = [NoReport EXCEPT !.hasTeams = t[1], !.teams = t[2], !.limit = l]
  /\ now = dateTimestamp(NowDay) + DAY_MILLISECONDS \div 2
  /\ fileMap = Nothing /\ toRemove = Nothing /\ visits = Nothing /\ data = Nothing
  /\ call = NoCall /\ dates = Nothing /\ series = Nothing /\ newData = Nothing
  /\ index = Nothing /\ tasks = Nothing /\ output = Nothing /\ previous = Nothing

\* readData a second time on the configuration object the first run worked on; previous keeps
\* what the first run gave
ReadDataAgain ==
  /\ pc = "done"
  /\ previous' = [teams |-> config.teams, fileMap |-> fileMap, visits |-> visits, data |-> data,
                  output |-> output]
  /\ config' = [config EXCEPT !.teams = collectUnusedUsers(config.teams)]
  /\ fileMap' = readStats(readStatsFolder(statsDir).fileMap, config.repositories, statsDir)
  /\ pc' = "read again"
  /\ UNCHANGED <<call, statsDir, toRemove, report, now, visits, data, dates, series, newData, index, tasks, output>>

\* reportDonutUser a second time
NormalizeUserDataAgain ==
  /\ pc = "read again"
  /\ visits' = reduceVisits(report, fileMap, config, 1, now)
  /\ data' = normalizeUserData(report, fileMap, config, now)
  /\ output' = generateDonutReport(normalizeUserData(report, fileMap, config, now))
  /\ pc' = "done again"
  /\ UNCHANGED <<config, call, statsDir, fileMap, toRemove, report, now, dates, series, newData, index, tasks, previous>>

NextRerun == ReadData \/ NormalizeUserData \/ ReadDataAgain \/ NormalizeUserDataAgain

SpecRerun == InitRerun /\ [][NextRerun]_vars

\* C22: the second readData leaves the users of every team and the loaded snapshots as the
\* first left them, and the second aggregation makes the same calls with the same values and
\* returns the same result; a run changes neither the snapshot files nor, once the teams are
\* collected, the configuration
C22_Idempotent ==
  /\ pc \in {"read again", "done again"} =>
        /\ config.teams = previous.teams
        /\ fileMap = previous.fileMap
  /\ pc = "done again" =>
        /\ visits = previous.visits
        /\ data = previous.data
        /\ output = previous.output

\* a configuration with two inverted teams and members outside them was reported twice
C22_Witness ==
  /\ pc = "done again"
  /\ Len(config.teams) = 4
  /\ config.teams[2].users # <<>>
  /\ config.teams[4].users # config.teams[2].users
  /\ report.hasTeams
  /\ Len(data) >= 2

(***************************************************************************)
(* The team-scoped store: one file per (repository, team), its              *)
(* readStatsFolder and clean                                                *)
(***************************************************************************)
JSON_POSTFIX == <<".", "j", "s", "o", "n">>

\* the name collect gives the file of a repository and a team written at Date.now() = timestamp
teamFileName(repositoryName, team, timestamp) ==
  repositoryName \o DIVIDER \o team \o DIVIDER \o numberToString(timestamp) \o JSON_POSTFIX

\* the third element of file.split(DIVIDER) through Number.parseInt; undefined parses to NaN
teamFileTimestamp(file) ==
  LET parts == split(file, DIVIDER)
  IN IF Len(parts) >= 3 THEN parseInt(parts[3]) ELSE NaN

\* repositoryName + DIVIDER + team of the first two elements of file.split(DIVIDER)
teamFileKey(file) ==
  LET parts == split(file, DIVIDER)
  IN parts[1] \o DIVIDER \o parts[2]

\* the body of the loop of the team-scoped readStatsFolder for one directory entry
teamStatsFolderStep(acc, entry) ==
  IF ~(stringIncludes(entry.file, JSON_POSTFIX) /\ stringIncludes(entry.file, DIVIDER)) THEN acc
  ELSE LET fileKey == teamFileKey(entry.file)
           timestamp == teamFileTimestamp(entry.file)
           seen == fileKey \in DOMAIN acc.fileMap
           item == [repositoryName |-> split(entry.file, DIVIDER)[1], file |-> entry.file,
                    team |-> split(entry.file, DIVIDER)[2], timestamp |-> timestamp]
       IN IF ~seen \/ lessThan(acc.fileMap[fileKey].timestamp, timestamp)
          THEN [fileMap |-> [k \in DOMAIN acc.fileMap \cup {fileKey} |->
                               IF k = fileKey THEN item ELSE acc.fileMap[k]],
                toRemove |-> IF seen THEN Append(acc.toRemove, entry.file) ELSE acc.toRemove]
          ELSE acc

RECURSIVE teamStatsFolderFrom(_, _, _)
teamStatsFolderFrom(dir, i, acc) ==
  IF i > Len(dir) THEN acc ELSE teamStatsFolderFrom(dir, i + 1, teamStatsFolderStep(acc, dir[i]))

\* the team-scoped readStatsFolder over the listing dir of config.dataDir: [fileMap, toRemove]
teamReadStatsFolder(dir) == teamStatsFolderFrom(dir, 1, [fileMap |-> <<>>, toRemove |-> <<>>])

\* the working directory of the process, and a data directory elsewhere
sCwd == <<".">>
sData == <<"d">>

\* the files of the store: one per repository key, team and timestamp
TeamFiles ==
  { [file |-> teamFileName(k, t, ts), key |-> k \o DIVIDER \o t, timestamp |-> ts] :
      k \in {sRa, sRb}, t \in {sT1}, ts \in 1..MaxTs }

\* the listings of a dataDir: up to MaxFiles files in any order
TeamListings ==
  UNION { { l \in [1..n -> TeamFiles] : \A i, j \in 1..n : i # j => l[i] # l[j] } : n \in 0..MaxFiles }

InitTeamStore ==
  /\ pc = "start"
  /\ statsDir \in TeamListings
  /\ \E d \in {sCwd, sData} : config = [dataDir |-> d]
  /\ fileMap = Nothing /\ toRemove = Nothing /\ visits = Nothing /\ data = Nothing
  /\ call = NoCall /\ report = NoReport /\ now = 0 /\ dates = Nothing /\ series = Nothing
  /\ newData = Nothing /\ index = Nothing /\ tasks = Nothing /\ output = Nothing
  /\ previous = Nothing

\* report up to its readStatsFolder: the map of the files it will read
TeamReadStatsFolder ==
  /\ pc = "start"
  /\ fileMap' = teamReadStatsFolder(statsDir).fileMap
  /\ pc' = "read"
  /\ UNCHANGED <<config, call, statsDir, toRemove, report, now, visits, data, dates, series, newData, index, tasks, output, previous>>

\* clean: readStatsFolder, then fs.removeSync of every name of toRemove, a name that is
\* resolved against the working directory; fileMap keeps the map the same call returned and
\* previous the listing it read
TeamClean ==
  /\ pc = "start"
  /\ fileMap' = teamReadStatsFolder(statsDir).fileMap
  /\ toRemove' = teamReadStatsFolder(statsDir).toRemove
  /\ statsDir' = IF config.dataDir = sCwd
                 THEN SelectSeq(statsDir, LAMBDA e : ~includes(teamReadStatsFolder(statsDir).toRemove, e.file))
                 ELSE statsDir
  /\ previous' = statsDir
  /\ pc' = "cleaned"
  /\ UNCHANGED <<config, call, report, now, visits, data, dates, series, newData, index, tasks, output>>

NextTeamStore == TeamReadStatsFolder \/ TeamClean

SpecTeamStore == InitTeamStore /\ [][NextTeamStore]_vars

\* C23: after the team-scoped clean, for every (repository, team) key the file recorded in
\* fileMap is the one of the maximum timestamp, it is not in toRemove and it is still in the
\* directory, and every other file of the key is in toRemove
C23_AuthoritativeKept ==
  pc = "cleaned" =>
    \A i \in DOMAIN previous :
      LET e == previous[i]
          newest == \A j \in DOMAIN previous :
                      previous[j].key = e.key => previous[j].timestamp <= e.timestamp
      IN /\ e.key \in DOMAIN fileMap
         /\ newest <=> fileMap[e.key].file = e.file
         /\ newest => ~includes(toRemove, e.file)
         /\ newest => \E j \in DOMAIN statsDir : statsDir[j].file = e.file
         /\ ~newest => includes(toRemove, e.file)

\* the selection alone: the file recorded in fileMap is the one of the maximum timestamp
C23_SelectsMaximum ==
  pc \in {"read", "cleaned"} =>
    \A k \in DOMAIN fileMap :
      \A i \in DOMAIN (IF pc = "read" THEN statsDir ELSE previous) :
        LET e == (IF pc = "read" THEN statsDir ELSE previous)[i]
        IN e.key = k => e.timestamp <= fileMap[k].timestamp.value

\* clean deleted the file its own readStatsFolder selected for a key
C23_AuthoritativeDeleted ==
  /\ pc = "cleaned"
  /\ \E k \in DOMAIN fileMap :
        /\ includes(toRemove, fileMap[k].file)
        /\ \A j \in DOMAIN statsDir : statsDir[j].file # fileMap[k].file

\* an older file of a key stayed out of toRemove
C23_GarbageKept ==
  /\ pc = "cleaned"
  /\ \E i, j \in DOMAIN previous :
        /\ previous[i].key = previous[j].key
        /\ previous[i].timestamp < previous[j].timestamp
        /\ ~includes(toRemove, previous[i].file)

(***************************************************************************)
(* The link-construction loop of the map report over any userRepositoryMap  *)
(***************************************************************************)
\* the repositories a user of the map can hold, in insertion order
RepositoryLists == { <<>>, <<sRa>>, <<sRb>>, <<sRa, sRb>>, <<sRb, sRa>> }

MapUsers == <<sMk, sDa, sbot>>

\* the maps of one to three users
UserRepositoryMaps ==
  UNION { { [i \in 1..n |-> [name |-> MapUsers[i], repositories |-> l[i]]] :
              l \in [1..n -> RepositoryLists] } : n \in 1..Len(MapUsers) }

InitLinks ==
  /\ pc = "map"
  /\ data \in UserRepositoryMaps
  /\ config = Nothing /\ statsDir = Nothing /\ fileMap = Nothing /\ toRemove = Nothing
  /\ visits = Nothing /\ call = NoCall /\ report = NoReport /\ now = 0 /\ dates = Nothing
  /\ series = Nothing /\ newData = Nothing /\ index = Nothing /\ tasks = Nothing
  /\ output = Nothing /\ previous = Nothing

\* the loop over userRepositoryMap: one node per user, the links of each of its repositories
BuildLinks ==
  /\ pc = "map"
  /\ output' = [nodes |-> [i \in DOMAIN data |-> [id |-> data[i].name, name |-> data[i].name]],
                links |-> userLinks(data, 1)]
  /\ pc' = "linked"
  /\ UNCHANGED <<config, call, statsDir, fileMap, toRemove, report, now, visits, data, dates, series, newData, index, tasks, previous>>

NextLinks == BuildLinks

SpecLinks == InitLinks /\ [][NextLinks]_vars

\* the repositories the map holds for the user called name
repositoriesOf(name) == data[mapIndex(data, name)].repositories

\* C24: every link the loop produced joins two different users, and its two users hold a
\* common repository in the map
C24_NoSelfLinks ==
  pc = "linked" =>
    \A l \in DOMAIN output.links :
      /\ output.links[l].source # output.links[l].target
      /\ \E r \in Range(repositoriesOf(output.links[l].source)) :
            includes(repositoriesOf(output.links[l].target), r)

\* the second half alone: the two users of every link hold a common repository
C24_LinkedShare ==
  pc = "linked" =>
    \A l \in DOMAIN output.links :
      \E r \in Range(repositoriesOf(output.links[l].source)) :
         includes(repositoriesOf(output.links[l].target), r)

\* a map of one user with one repository gave a link from the user to itself
C24_SelfLink ==
  /\ pc = "linked"
  /\ Len(data) = 1
  /\ Len(data[1].repositories) = 1
  /\ output.links = << [source |-> data[1].name, target |-> data[1].name] >>

(***************************************************************************)
(* The store over time: collect runs, clean runs and reports                *)
(***************************************************************************)
\* the outcomes of one iteration of the loop of collect: the clone or git log throws, git log
\* returns no authors, or it returns authors and the snapshot is written
Outcomes == {"throws", "empty", "authors"}

\* the snapshots written over the life of a store
MaxWrites == 4

\* a clean that removes every snapshot file
cleanFolderEverything(dir) == SelectSeq(dir, LAMBDA e : ~stringIncludes(e.file, STATS_FILE_POSTFIX))

\* clean: the directory without the files of toRemove
cleanFolder(dir) == SelectSeq(dir, LAMBDA e : ~includes(readStatsFolder(dir).toRemove, e.file))

\* the iterations of collect from repository r on (the variables a run fills are those of
\* the run alone and are empty when another run starts); st holds the directory, Date.now() and the
\* file last written for each repository. A snapshot is written under its temporary name and
\* renamed at once; first[r] tells whether the directory lists the new file first or last
RECURSIVE collectRepositories(_, _, _, _, _)
collectRepositories(st, cfg, r, outcomes, first) ==
  IF r > Len(cfg.repositories) THEN st
  ELSE IF outcomes[r] # "authors" THEN collectRepositories(st, cfg, r + 1, outcomes, first)
  ELSE LET repositoryName == getRepositoryName(cfg.repositories[r])
           entry == [file |-> snapshotFileName(repositoryName, st.now),
                     content |-> AuthorsChoices[((r + st.now) % 3) + 1],
                     key |-> repositoryName, timestamp |-> st.now]
       IN collectRepositories(
            [statsDir |-> IF first[r] THEN <<entry>> \o st.statsDir ELSE Append(st.statsDir, entry),
             now |-> st.now + 1,
             written |-> [st.written EXCEPT ![r] = entry.file]],
            cfg, r + 1, outcomes, first)

\* the aggregation of report over the directory dir: readData, then normalizeUserData
reportOf(dir, cfg, rep, nowTimestamp) ==
  LET read == [cfg EXCEPT !.teams = collectUnusedUsers(cfg.teams)]
  IN normalizeUserData(rep, readStats(readStatsFolder(dir).fileMap, read.repositories, dir),
                       read, nowTimestamp)

ReportInstant == dateTimestamp(NowDay) + DAY_MILLISECONDS \div 2

\* an empty directory at Date.now() = 1; previous holds, for each repository, the file its
\* last collect with authors wrote
InitStore ==
  /\ pc = "start"
  /\ statsDir = <<>>
  /\ now = 1
  /\ config = [users |-> <<uMk, uDa>>, teams |-> <<tTeam, tOthers>>, repositories |-> <<rA, rB>>,
               onlyRegistered |-> FALSE]
  /\ \E l \in {0, 3} : report = [NoReport EXCEPT !.limit = l]
  /\ previous = [r \in 1..2 |-> <<>>]
  /\ fileMap = Nothing /\ toRemove = Nothing /\ visits = Nothing /\ data = Nothing
  /\ call = NoCall /\ dates = Nothing /\ series = Nothing /\ newData = Nothing
  /\ index = Nothing /\ tasks = Nothing /\ output = Nothing

\* one run of collect: every repository in turn, each with its outcome
CollectRun ==
  /\ \E outcomes \in [DOMAIN config.repositories -> Outcomes],
        first \in [DOMAIN config.repositories -> BOOLEAN] :
        LET st == collectRepositories([statsDir |-> statsDir, now |-> now, written |-> previous],
                                      config, 1, outcomes, first)
        IN /\ st.now <= MaxWrites + 1
           /\ \A r \in DOMAIN first : outcomes[r] # "authors" => ~first[r]
           /\ statsDir' = st.statsDir
           /\ now' = st.now
           /\ previous' = st.written
  /\ pc' = "collected"
  /\ fileMap' = Nothing /\ toRemove' = Nothing /\ data' = Nothing
  /\ UNCHANGED <<config, call, report, visits, dates, series, newData, index, tasks, output>>

\* one run of clean
CleanRun ==
  /\ toRemove' = readStatsFolder(statsDir).toRemove
  /\ statsDir' = cleanFolder(statsDir)
  /\ pc' = "cleaned"
  /\ fileMap' = Nothing /\ data' = Nothing
  /\ UNCHANGED <<config, call, report, now, visits, dates, series, newData, index, tasks, output, previous>>

\* one run of report: readData, then the aggregation of a donut report
ReportRun ==
  /\ fileMap' = readStats(readStatsFolder(statsDir).fileMap, config.repositories, statsDir)
  /\ data' = reportOf(statsDir, config, report, ReportInstant)
  /\ pc' = "reported"
  /\ toRemove' = Nothing
  /\ UNCHANGED <<config, call, statsDir, report, now, visits, dates, series, newData, index, tasks, output, previous>>

NextStore == CollectRun \/ CleanRun \/ ReportRun

SpecStore == InitStore /\ [][NextStore]_vars

\* the file readStatsFolder selects for repository r, <<>> when none
selectedFile(dir, r) ==
  LET map == readStatsFolder(dir).fileMap
      k == getRepositoryName(config.repositories[r])
  IN IF k \in DOMAIN map THEN map[k].file ELSE <<>>

isTemp(file) ==
  /\ Len(file) >= Len(TEMP_POSTFIX)
  /\ SubSeq(file, Len(file) - Len(TEMP_POSTFIX) + 1, Len(file)) = TEMP_POSTFIX

\* C26: at every moment of a collect, no file that readStatsFolder selects has the temporary
\* postfix, and readStats reads no such file
C26_TempNeverSelected ==
  LET map == readStats(readStatsFolder(statsDir).fileMap, config.repositories, statsDir)
  IN \A k \in DOMAIN map : ~isTemp(map[k].file)

\* the first half alone: a file appears under its final name only by the renaming of the file
\* of the same name with the temporary postfix
C26_WrittenThenRenamed ==
  [][\A i \in DOMAIN statsDir' :
        (~isTemp(statsDir'[i].file) /\ \A j \in DOMAIN statsDir : statsDir[j].file # statsDir'[i].file)
          => /\ \E j \in DOMAIN statsDir : statsDir[j].file = statsDir'[i].file \o TEMP_POSTFIX
             /\ \A j \in DOMAIN statsDir' : statsDir'[j].file # statsDir'[i].file \o TEMP_POSTFIX]_vars

\* between the write and the rename, the temporary file of a repository that already has a
\* snapshot is the file readStatsFolder selects and readStats reads
C26_TempSelected ==
  /\ \E k \in DOMAIN tasks : tasks[k].phase = "rename"
  /\ LET map == readStats(readStatsFolder(statsDir).fileMap, config.repositories, statsDir)
     IN \E k \in DOMAIN map :
          /\ isTemp(map[k].file)
          /\ map[k].hasData
          /\ \E i \in DOMAIN statsDir : statsDir[i].key = k /\ ~isTemp(statsDir[i].file)

(***************************************************************************)
(* The calendar maps: collectTeamDates, collectUserDates,                   *)
(* collectRepositoriesDates, normalizeCalendarData                          *)
(***************************************************************************)
\* findUserTeams: the names of the teams of config.teams, among report.teams when it is set,
\* the author belongs to
findUserTeams(rep, author, cfg) ==
  LET belonging == SelectSeq([t \in DOMAIN cfg.teams |-> t],
                     LAMBDA t : /\ (~rep.hasTeams \/ includes(rep.teams, cfg.teams[t].name))
                                /\ isAuthorBelongToTeam(cfg.teams[t], cfg.users, author.email, author.name))
  IN [k \in DOMAIN belonging |-> cfg.teams[belonging[k]].name]

\* a map of maps as the list of its [name, dates] entries, dates the list of the [key, value]
\* entries of the inner map, both in insertion order; one entry per distinct name
emptyDates(names) ==
  LET firstOfName == SelectSeq([i \in DOMAIN names |-> i],
                               LAMBDA i : \A j \in 1..(i - 1) : names[j] # names[i])
  IN [k \in DOMAIN firstOfName |-> [name |-> names[firstOfName[k]], dates |-> <<>>]]

nameIndex(m, name) ==
  IF \E i \in DOMAIN m : m[i].name = name THEN CHOOSE i \in DOMAIN m : m[i].name = name ELSE 0

\* m[name][dateString] = (m[name][dateString] || 0) + value, for a name the map holds
addDate(m, name, dateString, value) ==
  LET i == nameIndex(m, name)
      k == keyIndex(m[i].dates, dateString)
  IN IF k = 0 THEN [m EXCEPT ![i].dates = Append(@, [key |-> dateString, value |-> 0 + value])]
     ELSE [m EXCEPT ![i].dates[k].value = @ + value]

\* the callback of collectTeamDates for the teams from position t on
RECURSIVE teamDatesStep(_, _, _, _)
teamDatesStep(m, teams, t, visit) ==
  IF t > Len(teams) THEN m
  ELSE teamDatesStep(addDate(m, teams[t], property(visit, "dateString"), visit.value), teams, t + 1, visit)

RECURSIVE foldTeamDates(_, _, _, _, _)
foldTeamDates(vs, i, m, rep, cfg) ==
  IF i > Len(vs) THEN m
  ELSE foldTeamDates(vs, i + 1, teamDatesStep(m, findUserTeams(rep, vs[i].author, cfg), 1, vs[i]), rep, cfg)

collectTeamDates(rep, map, cfg, nowTimestamp) ==
  foldTeamDates(reduceVisits(rep, map, cfg, 1, nowTimestamp), 1,
                emptyDates([t \in DOMAIN cfg.teams |-> cfg.teams[t].name]), rep, cfg)

\* the callback of collectUserDates: a key the map does not hold gets an empty map first
userDatesStep(m, visit) ==
  LET held == IF nameIndex(m, visit.userKey) = 0
              THEN Append(m, [name |-> visit.userKey, dates |-> <<>>]) ELSE m
  IN addDate(held, visit.userKey, property(visit, "dateString"), visit.value)

RECURSIVE foldUserDates(_, _, _)
foldUserDates(vs, i, m) ==
  IF i > Len(vs) THEN m ELSE foldUserDates(vs, i + 1, userDatesStep(m, vs[i]))

collectUserDates(rep, map, cfg, nowTimestamp) ==
  foldUserDates(reduceVisits(rep, map, cfg, 1, nowTimestamp), 1,
                emptyDates([u \in DOMAIN cfg.users |-> cfg.users[u].name]))

RECURSIVE foldRepositoriesDates(_, _, _, _)
foldRepositoriesDates(vs, i, m, cfg) ==
  IF i > Len(vs) THEN m
  ELSE foldRepositoriesDates(vs, i + 1,
         addDate(m, cfg.repositories[vs[i].repository].name, property(vs[i], "dateString"), vs[i].value),
         cfg)

collectRepositoriesDates(rep, map, cfg, nowTimestamp) ==
  foldRepositoriesDates(reduceVisits(rep, map, cfg, 1, nowTimestamp), 1,
                        emptyDates([r \in DOMAIN cfg.repositories |-> cfg.repositories[r].name]), cfg)

\* normalizeCalendarData of a report that sets neither compareTeams nor compareUsers
normalizeCalendarData(rep, map, cfg, nowTimestamp) ==
  [teamDates |-> collectTeamDates(rep, map, cfg, nowTimestamp),
   userDates |-> collectUserDates(rep, map, cfg, nowTimestamp),
   repositoriesDates |-> collectRepositoriesDates(rep, map, cfg, nowTimestamp),
   comparedData |-> <<>>]

\* one snapshot per repository under varied configurations; calendar reports with and
\* without limit, teams and repositories
InitDates ==
  /\ pc = "start"
  /\ statsDir = << snapshot(SnapshotKeys[1], 1, authorsA), snapshot(SnapshotKeys[2], 1, authorsB) >>
  /\ \E u \in {<<uMk, uDa>>, <<uDa>>},
        t \in {<<tTeam, tOthers>>, <<tTeam, tRaw, tOthersEx>>, <<tTeamEx>>},
        r \in {<<rA, rB>>, <<rB>>}, o \in BOOLEAN :
        config = [users |-> u, teams |-> t, repositories |-> r, onlyRegistered |-> o]
  /\ \E t \in {<<FALSE, <<>>>>, <<TRUE, <<sT1>>>>}, r \in {<<FALSE, <<>>>>, <<TRUE, <<sRa>>>>},
        l \in {0, 1, 3} :
        report = [NoReport EXCEPT !.hasTeams = t[1], !.teams = t[2],
                                  !.hasRepositories = r[1], !.repositories = r[2], !.limit = l]
  /\ now \in NowChoices
  /\ fileMap = Nothing /\ toRemove = Nothing /\ visits = Nothing /\ data = Nothing
  /\ call = NoCall /\ dates = Nothing /\ series = Nothing /\ newData = Nothing
  /\ index = Nothing /\ tasks = Nothing /\ output = Nothing /\ previous = Nothing

\* reportCalendarTeam / reportCalendarUser for one report, up to normalizeCalendarData
NormalizeCalendarData ==
  /\ pc = "read"
  /\ visits' = reduceVisits(report, fileMap, config, 1, now)
  /\ data' = normalizeCalendarData(report, fileMap, config, now)
  /\ pc' = "calendar"
  /\ UNCHANGED <<config, call, statsDir, fileMap, toRemove, report, now, dates, series, newData, index, tasks, output, previous>>

NextDates == ReadData \/ NormalizeCalendarData

SpecDates == InitDates /\ [][NextDates]_vars

\* the days the passing author records of repository r contributed on, within the window
\* when limit is set
contributedDays(r) ==
  UNION { { snapshotData(p[1])[p[2]].map[i].date :
              i \in {j \in DOMAIN snapshotData(p[1])[p[2]].map :
                       report.limit = 0 \/ inWindow(snapshotData(p[1])[p[2]].map[j].date)} } :
          p \in {q \in passingAuthors : q[1] = r} }

\* the sum of evaluate(dayRecord) over the records of day d of the passing authors of repository r
RECURSIVE sumOfDay(_, _)
sumOfDay(S, d) ==
  IF S = {} THEN 0
  ELSE LET p == CHOOSE q \in S : TRUE
           m == snapshotData(p[1])[p[2]].map
           own == SelectSeq(m, LAMBDA e : e.date = d)
       IN (IF own = <<>> THEN 0 ELSE evaluate(own[1])) + sumOfDay(S \ {p}, d)

allContributedDays == UNION { contributedDays(r) : r \in DOMAIN config.repositories }

\* C27: after normalizeCalendarData, with or without report.limit, every key of teamDates[T],
\* userDates[U] and repositoriesDates[R] is a day of the per-day map of a contributing author
\* record, and repositoriesDates[R] has one entry per contributed day of R whose value is the
\* sum of evaluate(dayRecord) for that day
C27_CalendarKeysAreDates ==
  pc = "calendar" =>
    /\ \A i \in DOMAIN data.teamDates : \A k \in DOMAIN data.teamDates[i].dates :
          data.teamDates[i].dates[k].key \in allContributedDays
    /\ \A i \in DOMAIN data.userDates : \A k \in DOMAIN data.userDates[i].dates :
          data.userDates[i].dates[k].key \in allContributedDays
    /\ \A r \in DOMAIN config.repositories :
          LET own == data.repositoriesDates[nameIndex(data.repositoriesDates, config.repositories[r].name)].dates
          IN /\ {own[k].key : k \in DOMAIN own} = contributedDays(r)
             /\ \A k \in DOMAIN own :
                   own[k].value = sumOfDay({q \in passingAuthors : q[1] = r}, own[k].key)

\* the same with report.limit set
C27_WithLimit ==
  (pc = "calendar" /\ report.limit # 0) =>
    /\ \A i \in DOMAIN data.teamDates : \A k \in DOMAIN data.teamDates[i].dates :
          data.teamDates[i].dates[k].key \in allContributedDays
    /\ \A i \in DOMAIN data.userDates : \A k \in DOMAIN data.userDates[i].dates :
          data.userDates[i].dates[k].key \in allContributedDays
    /\ \A r \in DOMAIN config.repositories :
          LET own == data.repositoriesDates[nameIndex(data.repositoriesDates, config.repositories[r].name)].dates
          IN /\ {own[k].key : k \in DOMAIN own} = contributedDays(r)
             /\ \A k \in DOMAIN own :
                   own[k].value = sumOfDay({q \in passingAuthors : q[1] = r}, own[k].key)

\* a report without limit over authors of several days gave every map the one key undefined
C27_UndefinedKey ==
  /\ pc = "calendar"
  /\ report.limit = 0
  /\ Cardinality(allContributedDays) >= 3
  /\ \E i \in DOMAIN data.repositoriesDates :
        /\ Len(data.repositoriesDates[i].dates) = 1
        /\ data.repositoriesDates[i].dates[1].key = undefined
  /\ \E i \in DOMAIN data.userDates : \E k \in DOMAIN data.userDates[i].dates :
        data.userDates[i].dates[k].key = undefined
  /\ \E i \in DOMAIN data.teamDates : \E k \in DOMAIN data.teamDates[i].dates :
        data.teamDates[i].dates[k].key = undefined

\* a report with limit gave a repository several days, one of them summed over two authors
C27_SeveralDays ==
  /\ pc = "calendar"
  /\ report.limit # 0
  /\ \E i \in DOMAIN data.repositoriesDates :
        /\ Len(data.repositoriesDates[i].dates) >= 2
        /\ \E k \in DOMAIN data.repositoriesDates[i].dates :
              data.repositoriesDates[i].dates[k].value = 7

(***************************************************************************)
(* Repository names and snapshot keys                                       *)
(***************************************************************************)
\* repository names: plain, capitalised, with a blank, a hyphen, a dot, an underscore, and
\* with the divider inside
RepositoryNames ==
  { sRa, sRb, <<"R", "a">>, <<"r", " ", "a">>, <<"r", "-", "a">>, <<"r", ".", "a">>,
    <<"r", "_", "a">>, <<"r", "-", "_", "-", "a">> }

\* two repositories of different names in an empty statsDir; previous holds the file written
\* for each
InitKeys ==
  /\ pc = "collect"
  /\ \E n \in RepositoryNames : \E m \in RepositoryNames \ {n} :
        config = [users |-> <<>>, teams |-> <<>>,
                  repositories |-> << [name |-> n, hasExclude |-> FALSE, exclude |-> <<>>],
                                      [name |-> m, hasExclude |-> FALSE, exclude |-> <<>>] >>,
                  onlyRegistered |-> FALSE]
  /\ statsDir = <<>>
  /\ now \in 1..MaxTs
  /\ previous = [r \in 1..2 |-> <<>>]
  /\ report = NoReport
  /\ fileMap = Nothing /\ toRemove = Nothing /\ visits = Nothing /\ data = Nothing
  /\ call = NoCall /\ dates = Nothing /\ series = Nothing /\ newData = Nothing
  /\ index = Nothing /\ tasks = Nothing /\ output = Nothing

\* collect with authors in both repositories
CollectKeys ==
  /\ pc = "collect"
  /\ LET st == collectRepositories([statsDir |-> statsDir, now |-> now, written |-> previous],
                                   config, 1, [r \in DOMAIN config.repositories |-> "authors"],
                                   [r \in DOMAIN config.repositories |-> FALSE])
     IN /\ statsDir' = st.statsDir
        /\ now' = st.now
        /\ previous' = st.written
  /\ pc' = "start"
  /\ UNCHANGED <<config, call, fileMap, toRemove, report, visits, data, dates, series, newData, index, tasks, output>>

NextKeys == CollectKeys \/ ReadData \/ Clean

SpecKeys == InitKeys /\ [][NextKeys]_vars

\* the content collect wrote under the name file
writtenContent(file) == statsDir[CHOOSE i \in DOMAIN statsDir : statsDir[i].file = file].content

\* C28: two configured repositories of different names have different keys; what readData
\* holds for a repository is the snapshot collect wrote for it; clean leaves the snapshot of
\* every repository in place; and the name of every snapshot file parses back to the key and
\* the timestamp it was written with
C28_KeysDistinct ==
  /\ \A r, s \in DOMAIN config.repositories :
        config.repositories[r].name # config.repositories[s].name
          => getRepositoryName(config.repositories[r]) # getRepositoryName(config.repositories[s])
  /\ pc = "read" =>
        \A r \in DOMAIN config.repositories :
           /\ hasSnapshot(r)
           /\ fileMap[repositoryKey(r)].file = previous[r]
           /\ snapshotData(r) = writtenContent(previous[r])
  /\ pc = "cleaned" =>
        \A r \in DOMAIN config.repositories : \E i \in DOMAIN statsDir : statsDir[i].file = previous[r]
  /\ \A i \in DOMAIN statsDir :
        /\ parsedRepositoryName(statsDir[i].file) = statsDir[i].key
        /\ parsedTimestamp(statsDir[i].file) = number(statsDir[i].timestamp)

\* the same for names of lower-case letters and digits only, which are their own keys
C28_PlainNames ==
  (\A r \in DOMAIN config.repositories : config.repositories[r].name \in {sRa, sRb}) =>
     /\ pc = "read" =>
           \A r \in DOMAIN config.repositories :
              /\ hasSnapshot(r)
              /\ fileMap[repositoryKey(r)].file = previous[r]
              /\ snapshotData(r) = writtenContent(previous[r])
     /\ pc = "cleaned" =>
           \A r \in DOMAIN config.repositories : \E i \in DOMAIN statsDir : statsDir[i].file = previous[r]
     /\ \A i \in DOMAIN statsDir :
           /\ parsedRepositoryName(statsDir[i].file) = statsDir[i].key
           /\ parsedTimestamp(statsDir[i].file) = number(statsDir[i].timestamp)

\* readData holds for the first repository the snapshot collect wrote for the second
C28_SnapshotOfAnother ==
  /\ pc = "read"
  /\ config.repositories[1].name # config.repositories[2].name
  /\ hasSnapshot(1)
  /\ fileMap[repositoryKey(1)].file = previous[2]
  /\ previous[1] # previous[2]

\* clean removed the snapshot of a repository in favour of that of another
C28_CollectedAsGarbage ==
  /\ pc = "cleaned"
  /\ toRemove = <<previous[1]>>
  /\ previous[1] # previous[2]

\* a written file whose name parses back to another key and to no timestamp
C28_ParsedAsAnother ==
  /\ pc = "start"
  /\ \E i \in DOMAIN statsDir :
        /\ parsedRepositoryName(statsDir[i].file) # statsDir[i].key
        /\ parsedTimestamp(statsDir[i].file) = NaN

(***************************************************************************)
(* The command line: the operations chosen from the arguments and their run *)
(***************************************************************************)
MaxArgs == 3

Words == {"collect", "clean", "report", "authors"}

\* process.argv.slice(2): up to MaxArgs words
ArgLists == UNION { [1..n -> Words] : n \in 0..MaxArgs }

\* a dispatch that puts report before clean
fnsReportFirst(args) ==
  (IF (~includes(args, "report") /\ ~includes(args, "clean")) \/ includes(args, "collect")
   THEN <<"collect">> ELSE <<>>)
  \o (IF includes(args, "report") THEN <<"report">> ELSE <<>>)
  \o (IF includes(args, "clean") THEN <<"clean">> ELSE <<>>)

\* fns after the three conditional pushes
fns(args) ==
  (IF (~includes(args, "report") /\ ~includes(args, "clean")) \/ includes(args, "collect")
   THEN <<"collect">> ELSE <<>>)
  \o (IF includes(args, "clean") THEN <<"clean">> ELSE <<>>)
  \o (IF includes(args, "report") THEN <<"report">> ELSE <<>>)

\* the calls made so far that have not settled
pending == {k \in DOMAIN output : output[k].state = "pending"}

InitCli ==
  /\ pc = "args"
  /\ \E a \in ArgLists : call = [NoCall EXCEPT !.fn = "cli", !.name = a]
  /\ tasks = <<>>
  /\ index = 1
  /\ output = <<>>
  /\ config = Nothing /\ statsDir = Nothing /\ fileMap = Nothing /\ toRemove = Nothing
  /\ report = NoReport /\ now = 0 /\ visits = Nothing /\ data = Nothing /\ dates = Nothing
  /\ series = Nothing /\ newData = Nothing /\ previous = Nothing

\* the module body: fns is filled from the arguments and the async function starts
Dispatch ==
  /\ pc = "args"
  /\ tasks' = fns(call.name)
  /\ pc' = "loop"
  /\ UNCHANGED <<config, call, statsDir, fileMap, toRemove, report, now, visits, data, dates, series, newData, index, output, previous>>

\* for (const fn of fns): fn() is called once the awaited call before it has settled
CallFn ==
  /\ pc = "loop"
  /\ await(pending = {})
  /\ index <= Len(tasks)
  /\ output' = Append(output, [fn |-> tasks[index], state |-> "pending"])
  /\ index' = index + 1
  /\ UNCHANGED <<pc, config, call, statsDir, fileMap, toRemove, report, now, visits, data, dates, series, newData, tasks, previous>>

\* the promise of call k resolves
Resolved(k) ==
  /\ pc = "loop"
  /\ output[k].state = "pending"
  /\ output' = [output EXCEPT ![k].state = "resolved"]
  /\ UNCHANGED <<pc, config, call, statsDir, fileMap, toRemove, report, now, visits, data, dates, series, newData, index, tasks, previous>>

\* the promise of call k rejects: the await throws and the async function ends
Rejected(k) ==
  /\ pc = "loop"
  /\ output[k].state = "pending"
  /\ output' = [output EXCEPT ![k].state = "rejected"]
  /\ pc' = "rejected"
  /\ UNCHANGED <<config, call, statsDir, fileMap, toRemove, report, now, visits, data, dates, series, newData, index, tasks, previous>>

\* the loop is over
Exit ==
  /\ pc = "loop"
  /\ await(pending = {})
  /\ index > Len(tasks)
  /\ pc' = "exited"
  /\ UNCHANGED <<config, call, statsDir, fileMap, toRemove, report, now, visits, data, dates, series, newData, index, tasks, output, previous>>

NextCli ==
  \/ Dispatch
  \/ CallFn
  \/ \E k \in DOMAIN output : Resolved(k)
  \/ \E k \in DOMAIN output : Rejected(k)
  \/ Exit

SpecCli == InitCli /\ [][NextCli]_vars

\* the operations the arguments ask for, in the order collect, clean, report
asked ==
  LET args == Range(call.name)
  IN SelectSeq(<<"collect", "clean", "report">>,
       LAMBDA op : \/ op \in args
                   \/ op = "collect" /\ "report" \notin args /\ "clean" \notin args)

\* C29: the operations called are, in order, the first ones of [collect if 'collect' is given
\* or neither 'report' nor 'clean' is], [clean if 'clean' is given], [report if 'report' is
\* given], each called once; an operation is called only when every operation before it has
\* resolved; and a run that reaches the end of its loop has called them all
C29_Dispatch ==
  pc # "args" =>
    /\ Len(output) <= Len(asked)
    /\ \A k \in DOMAIN output : output[k].fn = asked[k]
    /\ \A k \in DOMAIN output : k < Len(output) => output[k].state = "resolved"
    /\ pc = "exited" =>
          /\ Len(output) = Len(asked)
          /\ \A k \in DOMAIN output : output[k].state = "resolved"

\* 'report' and 'clean' given in that order: clean ran to its end, then report, and no collect
C29_Witness ==
  /\ pc = "exited"
  /\ call.name = <<"report", "clean">>
  /\ output = << [fn |-> "clean", state |-> "resolved"], [fn |-> "report", state |-> "resolved"] >>

\* an argument list without any of the three words ran collect alone
C29_DefaultCollect ==
  /\ pc = "exited"
  /\ call.name = <<"authors">>
  /\ output = << [fn |-> "collect", state |-> "resolved"] >>

(***************************************************************************)
(* searchCommitMessages                                                     *)
(***************************************************************************)
MaxMessages == 11

sFix == <<"f", "i", "x">>
sFixKey == <<"f", "i", "x", " ", "k", "e", "y">>
sAddFix == <<"a", "d", "d", " ", "f", "i", "x">>
sDocs == <<"d", "o", "c", "s">>

\* one entry of author.timestampMap: the key is the commit time in milliseconds as a string
commit(timestamp, lines, message) ==
  [key |-> numberToString(timestamp), linesChanged |-> lines, message |-> message]

\* an author record with the per-commit map collect writes under collectMessages
authorWithMessages(email, name, map, timestampMap) ==
  [email |-> email, name |-> name, linesChanged |-> sumLines(map, 1), map |-> map,
   timestampMap |-> timestampMap]

\* +dateString of a key of timestampMap
toNumber(s) == parseInt(s).value

\* authors of a snapshot: commits inside and outside a window of three days, one in the future
authorsWithMessages ==
  << authorWithMessages(smAt, sMk, <<day(NowDay - 4, 2), day(NowDay, 6)>>,
       << commit(dateTimestamp(NowDay - 4), 2, sFix),
          commit(dateTimestamp(NowDay), 1, sDocs),
          commit(dateTimestamp(NowDay) + 1, 5, sAddFix) >>),
     authorWithMessages(sxAt, sbot, <<day(NowDay - 1, 3), day(NowDay + 1, 4)>>,
       << commit(dateTimestamp(NowDay - 1), 3, sFixKey),
          commit(dateTimestamp(NowDay + 1), 4, sFix) >>) >>

\* an author with MaxMessages commits of one day, and one without messages
authorsWithManyMessages ==
  << authorWithMessages(sdAt, sda, <<day(NowDay, MaxMessages)>>,
       [i \in 1..MaxMessages |-> commit(dateTimestamp(NowDay) + i, 1, IF i % 4 = 0 THEN sDocs ELSE sFix)]),
     authorWithMessages(sMAt, smk, <<day(NowDay - 2, 2)>>,
       << commit(dateTimestamp(NowDay) + 1, 2, <<>>) >>) >>

\* the calls of the per-commit loop for a logged author, lines 444-466 with report.timestamp
RECURSIVE commitVisits(_, _, _, _)
commitVisits(rep, logged, nowTimestamp, i) ==
  IF i > Len(logged.author.timestampMap) THEN <<>>
  ELSE LET limitTimestamp == nowTimestamp - rep.limit * DAY_MILLISECONDS
           entry == logged.author.timestampMap[i]
           timestamp == toNumber(entry.key)
           rest == commitVisits(rep, logged, nowTimestamp, i + 1)
       IN IF timestamp <= nowTimestamp /\ timestamp >= limitTimestamp
          THEN <<[value |-> evaluate(entry), repository |-> logged.repository,
                  authorIndex |-> logged.authorIndex, author |-> logged.author,
                  userKey |-> logged.userKey, dateString |-> entry.key,
                  message |-> entry.message]>> \o rest
          ELSE rest

RECURSIVE loggedCommitVisits(_, _, _, _)
loggedCommitVisits(rep, logged, nowTimestamp, k) ==
  IF k > Len(logged) THEN <<>>
  ELSE (IF rep.limit = 0
        THEN <<[value |-> logged[k].value, repository |-> logged[k].repository,
                authorIndex |-> logged[k].authorIndex, author |-> logged[k].author,
                userKey |-> logged[k].userKey]>>
        ELSE commitVisits(rep, logged[k], nowTimestamp, 1))
       \o loggedCommitVisits(rep, logged, nowTimestamp, k + 1)

\* the calls of the callback made by normalizeDataReduce({...report, timestamp: true}, ...):
\* the logged authors are those of the reducer (one call each when limit is not set), and with
\* limit set each gives one call per entry of timestampMap in the window
reduceCommitVisits(rep, map, cfg, nowTimestamp) ==
  loggedCommitVisits(rep, reduceVisits([rep EXCEPT !.limit = 0], map, cfg, 1, nowTimestamp),
                     nowTimestamp, 1)

\* the callback of searchCommitMessages
searchStep(result, visit, rep, cfg) ==
  IF "message" \in DOMAIN visit /\ visit.message # <<>> /\ stringIncludes(visit.message, rep.query)
  THEN Append(result, [message |-> visit.message, userKey |-> visit.userKey,
                       timestamp |-> visit.dateString, value |-> visit.value,
                       repository |-> cfg.repositories[visit.repository].name])
  ELSE result

RECURSIVE foldSearch(_, _, _, _, _)
foldSearch(vs, i, result, rep, cfg) ==
  IF i > Len(vs) THEN result
  ELSE foldSearch(vs, i + 1, searchStep(result, vs[i], rep, cfg), rep, cfg)

\* Array.prototype.sort with (a, b) => +b.timestamp - +a.timestamp, by stable insertion
RECURSIVE insertByTimestamp(_, _)
insertByTimestamp(sorted, entry) ==
  IF sorted = <<>> THEN <<entry>>
  ELSE IF toNumber(entry.timestamp) - toNumber(sorted[Len(sorted)].timestamp) > 0
       THEN insertByTimestamp(SubSeq(sorted, 1, Len(sorted) - 1), entry) \o <<sorted[Len(sorted)]>>
       ELSE sorted \o <<entry>>

RECURSIVE sortByTimestamp(_)
sortByTimestamp(list) ==
  IF list = <<>> THEN <<>>
  ELSE insertByTimestamp(sortByTimestamp(SubSeq(list, 1, Len(list) - 1)), list[Len(list)])

\* searchCommitMessages
searchCommitMessages(rep, map, cfg, nowTimestamp) ==
  LET result == sortByTimestamp(foldSearch(reduceCommitVisits(rep, map, cfg, nowTimestamp), 1, <<>>, rep, cfg))
      count == IF rep.maxMessages # 0 THEN rep.maxMessages ELSE 10
  IN SubSeq(result, 1, IF count < Len(result) THEN count ELSE Len(result))

\* search reports: with and without limit, users, others and maxMessages
SearchReports ==
  { [hasUsers |-> u[1], users |-> u[2], hasRepositories |-> FALSE, repositories |-> <<>>,
     hasTeams |-> FALSE, teams |-> <<>>, others |-> o, othersLabel |-> <<>>,
     limit |-> l, top |-> 0, query |-> q, maxMessages |-> m] :
       u \in {<<FALSE, <<>>>>, <<TRUE, <<sMk>>>>}, o \in BOOLEAN, l \in {0, 3},
       q \in {sFix, sDocs, <<"x", " ", "k">>}, m \in {0, 1, 2} }

InitSearch ==
  /\ pc = "start"
  /\ statsDir \in { << snapshot(SnapshotKeys[1], 1, authorsWithMessages) >>,
                    << snapshot(SnapshotKeys[2], 2, authorsWithManyMessages) >>,
                    << snapshot(SnapshotKeys[1], 1, authorsWithMessages),
                       snapshot(SnapshotKeys[2], 2, authorsWithManyMessages) >> }
  /\ config = [users |-> <<uMk, uDa>>, teams |-> <<tTeam, tOthers>>, repositories |-> <<rA, rB>>,
               onlyRegistered |-> FALSE]
  /\ report \in SearchReports
  /\ now = dateTimestamp(NowDay) + DAY_MILLISECONDS \div 2
  /\ fileMap = Nothing /\ toRemove = Nothing /\ visits = Nothing /\ data = Nothing
  /\ call = NoCall /\ dates = Nothing /\ series = Nothing /\ newData = Nothing
  /\ index = Nothing /\ tasks = Nothing /\ output = Nothing /\ previous = Nothing

\* searchCommitMessages for one report at the instant now
SearchCommitMessages ==
  /\ pc = "read"
  /\ visits' = reduceCommitVisits(report, fileMap, config, now)
  /\ data' = searchCommitMessages(report, fileMap, config, now)
  /\ pc' = "searched"
  /\ UNCHANGED <<config, call, statsDir, fileMap, toRemove, report, now, dates, series, newData, index, tasks, output, previous>>

NextSearch == ReadData \/ SearchCommitMessages

SpecSearch == InitSearch /\ [][NextSearch]_vars

\* the commits <<r, a, i>> of the passing author records whose message contains the query,
\* within the window when limit is set
matchingCommits ==
  UNION { { <<p[1], p[2], i>> :
              i \in {j \in DOMAIN snapshotData(p[1])[p[2]].timestampMap :
                       LET e == snapshotData(p[1])[p[2]].timestampMap[j]
                       IN /\ e.message # <<>>
                          /\ stringIncludes(e.message, report.query)
                          /\ report.limit # 0 =>
                                /\ toNumber(e.key) <= now
                                /\ toNumber(e.key) >= now - report.limit * DAY_MILLISECONDS} } :
          p \in passingAuthors }

commitOf(c) == snapshotData(c[1])[c[2]].timestampMap[c[3]]

\* the entry searchCommitMessages returns for commit c
foundFor(c) ==
  [message |-> commitOf(c).message, userKey |-> itemKey(c), timestamp |-> commitOf(c).key,
   value |-> evaluate(commitOf(c)), repository |-> config.repositories[c[1]].name]

maxMessagesOrTen == IF report.maxMessages # 0 THEN report.maxMessages ELSE 10

\* the result holds min(maxMessages or 10, M) entries of the M matching commits, newest first,
\* none of them older than a matching commit left out
searchResultRight ==
  /\ Len(data) = (IF maxMessagesOrTen < Cardinality(matchingCommits)
                  THEN maxMessagesOrTen ELSE Cardinality(matchingCommits))
  /\ \A k \in DOMAIN data : \E c \in matchingCommits : data[k] = foundFor(c)
  /\ \A k, l \in DOMAIN data : k < l => toNumber(data[k].timestamp) >= toNumber(data[l].timestamp)
  /\ \A c \in matchingCommits :
        (\A k \in DOMAIN data : data[k] # foundFor(c)) =>
           \A k \in DOMAIN data : toNumber(data[k].timestamp) >= toNumber(commitOf(c).key)

\* C30: searchCommitMessages returns the min(maxMessages or 10, M) newest of the M matching
\* commit messages of the passing author records, newest first, each with its userKey,
\* repository name and value, with and without report.limit
C30_SearchNewest ==
  pc = "searched" => searchResultRight

\* the same with report.limit set, the matching commits being those of the window
C30_WithLimit ==
  (pc = "searched" /\ report.limit # 0) => searchResultRight

\* a search without limit over snapshots with matching messages returned nothing
C30_NothingFound ==
  /\ pc = "searched"
  /\ report.limit = 0
  /\ Cardinality(matchingCommits) > 10
  /\ data = <<>>

\* a search with limit cut more than ten matching messages down to ten
C30_TenOfMore ==
  /\ pc = "searched"
  /\ report.limit # 0
  /\ report.maxMessages = 0
  /\ Cardinality(matchingCommits) > 10
  /\ Len(data) = 10

====
